---- MODULE Spec2Model ----
(***************************************************************************)
(* Control-plane core of the SDN shortest-path controllers.                *)
(*                                                                         *)
(* Each controller is modelled with its own variables and its own          *)
(* specification:                                                          *)
(*   SpecJohnson       JohnsonFatTreeController: topology monitor of       *)
(*                     controller_fattree_johnson_v2.py, and of            *)
(*                     controller_johnson_fattree_stable.py where          *)
(*                     variant = "stable"                                  *)
(*   SpecJohnsonFrames its frame handling, on the states between two       *)
(*                     monitor cycles                                      *)
(*   SpecJohnsonSettles  its monitor on a fabric that has come to rest,    *)
(*                     with fairness                                       *)
(*   SpecJohnsonFlood  one broadcast frame that its _intelligent_flood     *)
(*                     hands on from switch to switch                      *)
(*   SpecBellmanV2     BellmanFatTreeController of                         *)
(*                     controller_bellman_fattree_v2.py                    *)
(*   SpecFixed         BellmanFatTreeController of                         *)
(*                     controller_bellman_fattree_fixed.py                 *)
(*   SpecFixedLinkDown the same controller while a link fails and the      *)
(*                     switches stay connected, with fairness              *)
(*   SpecFixedDiscovery                                                    *)
(*                     its link discovery with LLDP frames in flight       *)
(*   SpecRing          BellmanRingController of controller_bellman_ring.py *)
(*   SpecRingEvents    its topology events and the runs of                 *)
(*                     _build_optimal_topology they start                  *)
(*   SpecRing4         the same controller on a ring of four switches      *)
(*   SpecRecompute     JohnsonRingController of                            *)
(*                     controller_johnson_ring.py: a run of                *)
(*                     _build_optimal_topology on an ordered snapshot      *)
(*   SpecBellmanBasic  BellmanFordController of controller_bellman.py      *)
(*   SpecMeshFinal     JohnsonMeshController of                            *)
(*                     controller_johnson_mesh_final.py                    *)
(*   SpecMeshUltra     JohnsonMeshUltraController of                       *)
(*                     controller_johnson_mesh_ultra.py                    *)
(*                                                                         *)
(* Scheduling: every controller runs on eventlet green threads, so a       *)
(* handler runs without interruption until it blocks (hub.sleep,           *)
(* tpool.execute, a topology_api request).  One action is one such         *)
(* uninterrupted run.                                                      *)
(***************************************************************************)
EXTENDS Integers, Sequences, FiniteSets, TLC

VARIABLES
    \* ---- JohnsonFatTreeController ----
    variant,                 \* which of the two source files is running
    ryu_switches,            \* switch list of Ryu's topology module (get_switch)
    ryu_links,               \* link list of Ryu's topology module (get_link)
    topo_event_pending,      \* a topology event is queued for the controller
    datapaths,               \* self.datapaths (keys)
    switch_count,            \* self.switch_count
    net,                     \* self.net
    port_map,                \* self.port_map
    mst,                     \* self.mst
    all_paths,               \* self.all_paths
    stable_counter,          \* self.stable_counter
    last_topology_hash,      \* self.last_topology_hash
    topology_ready,          \* self.topology_ready
    computation_in_progress, \* self.computation_in_progress
    pc,                      \* where the _monitor_topology green thread is
    mon_switches,            \* local `switches` of _build_topology
    fresh_obs,               \* history: identical observations since start
    obs_since_dead,          \* history: equal observations since a disconnect
    \* ---- BellmanFatTreeController (controller_bellman_fattree_v2.py) ----
    b2_datapaths,            \* self.datapaths (keys)
    topology,                \* self.topology: dpid -> {neighbor_dpid -> out_port}
    b2_mst,                  \* self.mst
    b2_topology_ready,       \* self.topology_ready
    b2_path_cache,           \* self.path_cache
    last_hash,               \* local last_hash of _topology_updater
    b2_hosts,                \* self.hosts
    b2_out,                  \* what the step just taken sent to the switch
    \* ---- BellmanFatTreeController (controller_bellman_fattree_fixed.py) ----
    bf_datapaths,            \* self.datapaths (keys)
    bf_net,                  \* self.net
    bf_port_map,             \* self.port_map: dpid -> {port -> neighbor_dpid}
    bf_mst,                  \* self.mst
    bf_path_cache,           \* self.path_cache
    bf_topology_ready,       \* self.topology_ready
    last_topo_hash,          \* self.last_topo_hash
    bf_hosts,                \* self.hosts
    \* ---- frame handling of JohnsonFatTreeController ----
    j_hosts,                 \* self.hosts
    j_out,                   \* what the step just taken sent to the switch
    \* ---- BellmanRingController (controller_bellman_ring.py) ----
    ring_net,                \* self.net
    ring_port_map,           \* self.port_map
    ring_mst,                \* self.mst
    ring_hosts,              \* self.hosts
    is_updating,             \* self.is_updating
    ring_pc,                 \* where each run of _build_optimal_topology
                             \* is, in the order the runs were spawned
    ring_switches,           \* local `switches` of each run
    ring_out,                \* what the step just taken sent to the switch
    \* ---- BellmanFordController (controller_bellman.py) ----
    bb_hosts,                \* self.hosts
    bb_out,                  \* what the step just taken sent to the switch
    \* ---- JohnsonMeshUltraController (controller_johnson_mesh_ultra.py) ----
    mu_hosts,                \* self.hosts
    mu_arp_table,            \* self.arp_table
    mu_net,                  \* self.net
    mu_port_map,             \* self.port_map
    mu_mst,                  \* self.mst
    mu_all_paths,            \* self.all_paths
    mu_last_topo_stats,      \* self.last_topo_stats
    mu_is_ready,             \* self.is_ready
    mu_topology_frozen,      \* self.topology_frozen
    mu_pc,                   \* where the _monitor_topology green thread is
    mu_switches,             \* local `switches` of _monitor_topology
    mu_out,                  \* what the step just taken sent to the switch
    mu_frame,                \* the frame that the step just taken handled
    \* ---- JohnsonMeshController (controller_johnson_mesh_final.py) ----
    mf_hosts,                \* self.hosts
    mf_net,                  \* self.net
    mf_port_map,             \* self.port_map
    mf_mst,                  \* self.mst
    mf_all_paths,            \* self.all_paths
    mf_pc,                   \* where the _monitor_topology green thread is
    mf_switches,             \* local `switches` of _build_optimal_topology
    mf_out,                  \* what the step just taken sent to the switch
    \* ---- JohnsonRingController (controller_johnson_ring.py) ----
    jr_switches,             \* the reply of get_switch, in its order
    jr_links,                \* the reply of get_link, in its order
    johnson_rejects_unweighted,  \* the installed networkx refuses a graph
                             \* without a weighted edge
    jr_net,                  \* self.net, nodes and successors in dict order
    jr_port_map,             \* self.port_map
    jr_mst,                  \* self.mst
    jr_all_paths,            \* self.all_paths
    \* ---- the fabric under the controllers ----
    link_down,               \* the switch-to-switch links that are down
    wiring,                  \* the switch-to-switch links of the fabric
    lldp_in_flight,          \* LLDP frames <<sender, receiver>> on their way
    bcast_in_flight,         \* copies <<dpid, in_port, src>> of a broadcast
                             \* frame that are on their way to a packet-in
    bcast_handled            \* how often each switch has handled that frame

jvars == <<variant, ryu_switches, ryu_links, topo_event_pending, datapaths,
           switch_count, net, port_map, mst, all_paths, stable_counter,
           last_topology_hash, topology_ready, computation_in_progress, pc,
           mon_switches, fresh_obs, obs_since_dead>>

b2vars == <<b2_datapaths, topology, b2_mst, b2_topology_ready, b2_path_cache,
            last_hash, b2_hosts>>

bfvars == <<bf_datapaths, bf_net, bf_port_map, bf_mst, bf_path_cache,
            bf_topology_ready, last_topo_hash, bf_hosts>>

jfvars == <<j_hosts>>

ringvars == <<ring_net, ring_port_map, ring_mst, ring_hosts, is_updating,
              ring_pc, ring_switches>>

bbvars == <<bb_hosts>>

muvars == <<mu_hosts, mu_arp_table, mu_net, mu_port_map, mu_mst, mu_all_paths,
            mu_last_topo_stats, mu_is_ready, mu_topology_frozen, mu_pc,
            mu_switches>>

jrvars == <<jr_switches, jr_links, johnson_rejects_unweighted, jr_net,
           jr_port_map, jr_mst, jr_all_paths>>

mfvars == <<mf_hosts, mf_net, mf_port_map, mf_mst, mf_all_paths, mf_pc,
            mf_switches>>

\* the messages of the step just taken
outs == <<j_out, ring_out, b2_out, bb_out, mu_out, mu_frame, mf_out>>

physvars == <<link_down, wiring, lldp_in_flight>>

bcastvars == <<bcast_in_flight, bcast_handled>>

vars == <<jvars, b2vars, bfvars, jfvars, ringvars, bbvars, muvars, jrvars, mfvars,
          physvars, bcastvars, outs>>

\* what the handlers of one controller leave alone: the other controllers
notJ == <<b2vars, bfvars, jfvars, ringvars, bbvars, muvars, jrvars, mfvars,
           physvars, bcastvars>>
notB2 == <<jvars, bfvars, jfvars, ringvars, bbvars, muvars, jrvars, mfvars,
            physvars, bcastvars>>
notBF == <<jvars, b2vars, jfvars, ringvars, bbvars, muvars, jrvars, mfvars,
            physvars, bcastvars>>
notJF == <<jvars, b2vars, bfvars, ringvars, bbvars, muvars, jrvars, mfvars,
            physvars>>
notRing == <<b2vars, bfvars, jfvars, bbvars, muvars, jrvars, mfvars,
              physvars, bcastvars>>
notBB == <<b2vars, bfvars, jfvars, ringvars, muvars, jrvars, mfvars,
            physvars, bcastvars>>
notMU == <<b2vars, bfvars, jfvars, ringvars, bbvars, jrvars, mfvars,
            physvars, bcastvars>>
notMF == <<b2vars, bfvars, jfvars, ringvars, bbvars, muvars, jrvars,
            physvars, bcastvars>>

----------------------------------------------------------------------------
(* Bounds of the model *)

\* stable_counter grows without limit in the code; observations stop here
MaxStableCounter == 4

\* hub.spawn creates a green thread at every call; the model has room for
\* this many runs of _build_optimal_topology at a time
MaxRuns == 2
Runs == 1..MaxRuns

\* the switches of the fabric and its physical wiring
Switches == {1, 2, 3}
PhysLinks == {<<1, 2>>, <<2, 3>>}

\* port of switch u that is wired to switch v (port 1 is the host port)
PortTo(u, v) == ((v + 4 - u) % 4) + 1

----------------------------------------------------------------------------
(* Graph library (networkx) as the controllers use it *)

Min(a, b) == IF a < b THEN a ELSE b

\* Graph.to_undirected(): the undirected edges of a set of directed pairs
Und(E) == {{e[1], e[2]} : e \in E}

Endpoints(L) == UNION {{l[1], l[2]} : l \in L}

RECURSIVE ReachSet(_, _)
ReachSet(UE, seen) ==
    LET nxt == seen \cup {v \in UNION UE : \E u \in seen : {u, v} \in UE}
    IN  IF nxt = seen THEN seen ELSE ReachSet(UE, nxt)

\* nx.is_connected on a graph with node set N and undirected edges UE
IsConnected(N, UE) ==
    /\ N # {}
    /\ LET s == CHOOSE x \in N : TRUE IN N \subseteq ReachSet(UE, {s})

IsAcyclic(N, UE) ==
    \A e \in UE : LET a == CHOOSE x \in e : TRUE
                      b == CHOOSE y \in e : y # a
                  IN  b \notin ReachSet(UE \ {e}, {a})

\* the results nx.minimum_spanning_tree can give on a connected graph with
\* uniform weights: which spanning tree it is depends on the edge order
SpanningTrees(N, UE) ==
    {T \in SUBSET UE : Cardinality(T) = Cardinality(N) - 1 /\ IsConnected(N, T)}

\* simple directed paths from s to d, as node sequences
PathsBetween(N, E, s, d) ==
    {p \in UNION {[1..k -> N] : k \in 1..Cardinality(N)} :
        /\ p[1] = s
        /\ p[Len(p)] = d
        /\ \A i \in 1..(Len(p) - 1) : <<p[i], p[i + 1]>> \in E
        /\ \A i, j \in 1..Len(p) : i # j => p[i] # p[j]}

\* the shortest ones (uniform weight 1)
ShortestPaths(N, E, s, d) ==
    LET ps == PathsBetween(N, E, s, d)
    IN  {p \in ps : \A q \in ps : Len(p) <= Len(q)}

ReachablePairs(N, E) ==
    {sd \in N \X N : PathsBetween(N, E, sd[1], sd[2]) # {}}

RECURSIVE ChoosePaths(_, _, _)
\* the functions that give every pair of S one of its shortest paths
ChoosePaths(N, E, S) ==
    IF S = {} THEN {<<>>}
    ELSE LET sd == CHOOSE x \in S : TRUE
             rest == ChoosePaths(N, E, S \ {sd})
         IN  {[x \in S |-> IF x = sd THEN p ELSE g[x]] :
                 g \in rest, p \in ShortestPaths(N, E, sd[1], sd[2])}

\* the results nx.johnson(G, weight='weight') can give: for every source and
\* every destination reachable from it one shortest path (ties are broken by
\* the adjacency order of the graph); all_paths[s][d] is written f[<<s, d>>]
JohnsonResults(N, E) == ChoosePaths(N, E, ReachablePairs(N, E))

----------------------------------------------------------------------------
(* JohnsonFatTreeController *)

NoMst == [present |-> FALSE, nodes |-> {}, edges |-> {}]
Tree(N, T) == [present |-> TRUE, nodes |-> N, edges |-> T]
EmptyNet == [nodes |-> {}, port |-> <<>>]
NoPaths == <<>>
NoHash == <<>>

Edges(n) == DOMAIN n.port

\* consecutive equal observations asked for before routes are computed
StabilityThreshold == 3

\* _get_topology_hash: Python's hash of (sorted nodes, sorted edges); the
\* tuple itself stands for its hash value (the ports are not part of it)
GetTopologyHash(n) == <<n.nodes, Edges(n)>>

\* the links _build_topology keeps
UsedLinks(links) ==
    IF variant = "v2"
    THEN {l \in links : l[1] \in datapaths /\ l[2] \in datapaths}
    ELSE links

MapKeys(sw) == IF variant = "v2" THEN sw \cap datapaths ELSE sw

\* v2 indexes temp_port_map[src] unguarded: KeyError for a kept link whose
\* endpoint was not in the switch list read before
BuildRaisesKeyError(sw, links) ==
    /\ variant = "v2"
    /\ \E l \in UsedLinks(links) : l[1] \notin MapKeys(sw) \/ l[2] \notin MapKeys(sw)

TempEdges(links) ==
    UNION {{<<l[1], l[2]>>, <<l[2], l[1]>>} : l \in UsedLinks(links)}

TempNet(sw, links) ==
    [nodes |-> MapKeys(sw) \cup Endpoints(UsedLinks(links)),
     port  |-> [e \in TempEdges(links) |-> PortTo(e[1], e[2])]]

TempPortMap(sw, links) ==
    [d \in MapKeys(sw) |->
        LET nbrs == {e[2] : e \in {x \in TempEdges(links) : x[1] = d}}
        IN  [p \in {PortTo(d, w) : w \in nbrs} |->
                CHOOSE w \in nbrs : PortTo(d, w) = p]]

ReadyAfterObserveKept(current_hash) == topology_ready

StartsComputationEarly(counter, ready) == counter >= 2 /\ ~ready

\* a gate that never counts an observation
NeverCounts(current_hash) == 0

\* the stability gate of _build_topology
NextStableCounter(current_hash) ==
    IF current_hash = last_topology_hash THEN stable_counter + 1 ELSE 0

ReadyAfterObserve(current_hash) ==
    IF current_hash = last_topology_hash THEN topology_ready ELSE FALSE

\* a gate that asks for stability only
StartsComputationAgain(counter, ready) == counter >= StabilityThreshold

\* "if self.stable_counter < 3: return" and "if not self.topology_ready:"
StartsComputation(counter, ready) ==
    counter >= StabilityThreshold /\ ~ready

\* "len(self.net.nodes) >= 2" (v2), "> 0" (stable)
ComputesOn(n) ==
    IF variant = "v2" THEN Cardinality(n.nodes) >= 2 ELSE Cardinality(n.nodes) > 0

\* topology_ready after the except branch
ReadyAfterFailure == IF variant = "v2" THEN FALSE ELSE topology_ready

\* topology_ready after a computation ran to its end
ReadyAfterCompute == TRUE

\* no frame seen, nothing sent
NoOut == [kind |-> "none", dpid |-> 0, in_port |-> 0, ports |-> {}, rule |-> FALSE]
NoFrame == <<>>

\* a step that sends no frame and installs no rule
Silent ==
    /\ j_out' = NoOut
    /\ ring_out' = NoOut
    /\ b2_out' = NoOut
    /\ bb_out' = NoOut
    /\ mu_out' = NoOut
    /\ mu_frame' = NoFrame
    /\ mf_out' = NoOut

Computing == {"mst", "johnson"}

BreakFresh == IF fresh_obs > 0 THEN -1 ELSE fresh_obs

JInit ==
    /\ variant \in {"v2", "stable"}
    /\ ryu_switches = {}
    /\ ryu_links = {}
    /\ topo_event_pending = FALSE
    /\ datapaths = {}
    /\ switch_count = 0
    /\ net = EmptyNet
    /\ port_map = <<>>
    /\ mst = NoMst
    /\ all_paths = NoPaths
    /\ stable_counter = 0
    /\ last_topology_hash = NoHash
    /\ topology_ready = FALSE
    /\ computation_in_progress = FALSE
    /\ pc = "sleep"
    /\ mon_switches = {}
    /\ fresh_obs = 0
    /\ obs_since_dead = 3

\* Ryu's topology module registers a switch and sends EventSwitchEnter
RyuSwitchEnter(d) ==
    /\ d \notin ryu_switches
    /\ ryu_switches' = ryu_switches \cup {d}
    /\ topo_event_pending' = TRUE
    /\ Silent
    /\ UNCHANGED <<notJ, variant, ryu_links, datapaths, switch_count, net, port_map,
                   mst, all_paths, stable_counter, last_topology_hash,
                   topology_ready, computation_in_progress, pc, mon_switches,
                   fresh_obs, obs_since_dead>>

\* ... unregisters it with its links: EventSwitchLeave (handled by v2 only)
\* and an EventLinkDelete for each of its links
RyuSwitchLeave(d) ==
    /\ d \in ryu_switches
    /\ ryu_switches' = ryu_switches \ {d}
    /\ ryu_links' = {l \in ryu_links : l[1] # d /\ l[2] # d}
    /\ topo_event_pending' =
          (topo_event_pending \/ variant = "v2" \/ ryu_links' # ryu_links)
    /\ Silent
    /\ UNCHANGED <<notJ, variant, datapaths, switch_count, net, port_map,
                   mst, all_paths, stable_counter, last_topology_hash,
                   topology_ready, computation_in_progress, pc, mon_switches,
                   fresh_obs, obs_since_dead>>

\* ... discovers a link between two registered switches: EventLinkAdd
RyuLinkAdd(l) ==
    /\ l \notin ryu_links
    /\ l[1] \in ryu_switches /\ l[2] \in ryu_switches
    /\ ryu_links' = ryu_links \cup {l}
    /\ topo_event_pending' = TRUE
    /\ Silent
    /\ UNCHANGED <<notJ, variant, ryu_switches, datapaths, switch_count, net, port_map,
                   mst, all_paths, stable_counter, last_topology_hash,
                   topology_ready, computation_in_progress, pc, mon_switches,
                   fresh_obs, obs_since_dead>>

\* ... loses a link: EventLinkDelete
RyuLinkDelete(l) ==
    /\ l \in ryu_links
    /\ ryu_links' = ryu_links \ {l}
    /\ topo_event_pending' = TRUE
    /\ Silent
    /\ UNCHANGED <<notJ, variant, ryu_switches, datapaths, switch_count, net, port_map,
                   mst, all_paths, stable_counter, last_topology_hash,
                   topology_ready, computation_in_progress, pc, mon_switches,
                   fresh_obs, obs_since_dead>>

\* _topology_change_handler (v2), _topology_event_ignore (stable)
TopologyChangeHandler ==
    /\ topo_event_pending
    /\ topo_event_pending' = FALSE
    /\ stable_counter' = 0
    /\ topology_ready' = FALSE
    /\ fresh_obs' = BreakFresh
    /\ Silent
    /\ UNCHANGED <<notJ, variant, ryu_switches, ryu_links, datapaths, switch_count,
                   net, port_map, mst, all_paths, last_topology_hash,
                   computation_in_progress, pc, mon_switches, obs_since_dead>>

\* a MAIN_DISPATCHER handler that treats a reconnect as a fresh connect
StateChangeMainResets(d) ==
    /\ variant = "v2"
    /\ datapaths' = datapaths \cup {d}
    /\ switch_count' = switch_count + 1
    /\ stable_counter' = 0
    /\ topology_ready' = FALSE
    /\ Silent
    /\ UNCHANGED <<notJ, variant, ryu_switches, ryu_links, topo_event_pending, net,
                   port_map, mst, all_paths, last_topology_hash,
                   computation_in_progress, pc, mon_switches,
                   fresh_obs, obs_since_dead>>

\* _state_change_handler, MAIN_DISPATCHER (v2 only)
StateChangeMain(d) ==
    /\ variant = "v2"
    /\ datapaths' = datapaths \cup {d}
    /\ switch_count' = IF d \in datapaths THEN switch_count
                       ELSE Cardinality(datapaths')
    /\ Silent
    /\ UNCHANGED <<notJ, variant, ryu_switches, ryu_links, topo_event_pending, net,
                   port_map, mst, all_paths, stable_counter, last_topology_hash,
                   topology_ready, computation_in_progress, pc, mon_switches,
                   fresh_obs, obs_since_dead>>

\* the gate after a tracked switch disconnected
CounterAfterDead == 0
ReadyAfterDead == FALSE

\* _state_change_handler, DEAD_DISPATCHER (v2 only)
StateChangeDead(d) ==
    /\ variant = "v2"
    /\ IF d \in datapaths
       THEN /\ datapaths' = datapaths \ {d}
            /\ switch_count' = Cardinality(datapaths')
            /\ stable_counter' = CounterAfterDead
            /\ topology_ready' = ReadyAfterDead
            /\ fresh_obs' = BreakFresh
            /\ obs_since_dead' = 0
       ELSE UNCHANGED <<datapaths, switch_count, stable_counter, topology_ready,
                        fresh_obs, obs_since_dead>>
    /\ Silent
    /\ UNCHANGED <<notJ, variant, ryu_switches, ryu_links, topo_event_pending, net,
                   port_map, mst, all_paths, last_topology_hash,
                   computation_in_progress, pc, mon_switches>>

\* _monitor_topology wakes up, passes its guards and _build_topology reads the
\* switch list.  (The guard on last_computation_time never holds after the
\* 30 s sleep that follows a computation.)
MonitorGetSwitch ==
    /\ pc = "sleep"
    /\ variant = "v2" => switch_count >= 2
    /\ ~computation_in_progress
    /\ mon_switches' = ryu_switches
    /\ pc' = IF ryu_switches = {} THEN "sleep" ELSE "get_link"
    /\ Silent
    /\ UNCHANGED <<notJ, variant, ryu_switches, ryu_links, topo_event_pending,
                   datapaths, switch_count, net, port_map, mst, all_paths,
                   stable_counter, last_topology_hash, topology_ready,
                   computation_in_progress, fresh_obs, obs_since_dead>>

\* _build_topology from the reply of get_link up to its return or up to the
\* first tpool.execute
BuildTopology ==
    /\ pc = "get_link"
    /\ Silent
    /\ UNCHANGED <<notJ, variant, ryu_switches, ryu_links, topo_event_pending,
                   datapaths, switch_count>>
    /\ mon_switches' = {}
    /\ IF BuildRaisesKeyError(mon_switches, ryu_links)
       THEN /\ pc' = "crashed"
            /\ UNCHANGED <<net, port_map, mst, all_paths, stable_counter,
                           last_topology_hash, topology_ready,
                           computation_in_progress, fresh_obs, obs_since_dead>>
       ELSE LET temp_net == TempNet(mon_switches, ryu_links)
                current_hash == GetTopologyHash(temp_net)
                equal == current_hash = last_topology_hash
                counter == NextStableCounter(current_hash)
                ready == ReadyAfterObserve(current_hash)
                start == StartsComputation(counter, ready)
                connected == IsConnected(temp_net.nodes, Und(Edges(temp_net)))
            IN  /\ equal => stable_counter < MaxStableCounter
                /\ stable_counter' = counter
                /\ last_topology_hash' = current_hash
                /\ net' = temp_net
                /\ port_map' = TempPortMap(mon_switches, ryu_links)
                /\ fresh_obs' =
                      IF fresh_obs = -1 THEN -1
                      ELSE IF fresh_obs = 0
                           THEN (IF connected /\ Cardinality(temp_net.nodes) >= 2
                                 THEN 1 ELSE -1)
                           ELSE (IF equal THEN Min(fresh_obs + 1, 4) ELSE -1)
                /\ obs_since_dead' =
                      IF obs_since_dead = 3 THEN 3
                      ELSE IF equal THEN obs_since_dead + 1 ELSE 0
                /\ all_paths' = all_paths
                /\ IF ~start
                   THEN /\ pc' = "sleep"
                        /\ topology_ready' = ready
                        /\ UNCHANGED <<mst, computation_in_progress>>
                   ELSE IF ~ComputesOn(temp_net)
                   THEN /\ pc' = "sleep"
                        /\ topology_ready' = ReadyAfterCompute
                        /\ computation_in_progress' = FALSE
                        /\ mst' = mst
                   ELSE IF connected
                   THEN /\ pc' = "mst"
                        /\ topology_ready' = ready
                        /\ computation_in_progress' = TRUE
                        /\ mst' = mst
                   ELSE /\ pc' = "johnson"
                        /\ topology_ready' = ready
                        /\ computation_in_progress' = TRUE
                        /\ mst' = NoMst

\* tpool.execute(nx.minimum_spanning_tree, undirected) returns; nx.johnson is
\* handed to the thread pool
MstDone ==
    /\ pc = "mst"
    /\ \E t \in SpanningTrees(net.nodes, Und(Edges(net))) :
          mst' = Tree(net.nodes, t)
    /\ pc' = "johnson"
    /\ Silent
    /\ UNCHANGED <<notJ, variant, ryu_switches, ryu_links, topo_event_pending,
                   datapaths, switch_count, net, port_map, all_paths,
                   stable_counter, last_topology_hash, topology_ready,
                   computation_in_progress, mon_switches, fresh_obs,
                   obs_since_dead>>

\* tpool.execute(nx.johnson, self.net, weight='weight') returns
JohnsonDone ==
    /\ pc = "johnson"
    /\ \E f \in JohnsonResults(net.nodes, Edges(net)) : all_paths' = f
    /\ topology_ready' = ReadyAfterCompute
    /\ computation_in_progress' = FALSE
    /\ pc' = "sleep"
    /\ Silent
    /\ UNCHANGED <<notJ, variant, ryu_switches, ryu_links, topo_event_pending,
                   datapaths, switch_count, net, port_map, mst,
                   stable_counter, last_topology_hash, mon_switches, fresh_obs,
                   obs_since_dead>>

\* either call raises (nx.johnson of older networkx releases does so on a
\* graph without edges): the except and finally branches
ComputationRaises ==
    /\ pc \in Computing
    /\ all_paths' = NoPaths
    /\ mst' = NoMst
    /\ topology_ready' = ReadyAfterFailure
    /\ computation_in_progress' = FALSE
    /\ pc' = "sleep"
    /\ Silent
    /\ UNCHANGED <<notJ, variant, ryu_switches, ryu_links, topo_event_pending,
                   datapaths, switch_count, net, port_map,
                   stable_counter, last_topology_hash, mon_switches, fresh_obs,
                   obs_since_dead>>

JNext ==
    \/ \E d \in Switches : RyuSwitchEnter(d)
    \/ \E d \in Switches : RyuSwitchLeave(d)
    \/ \E l \in PhysLinks : RyuLinkAdd(l)
    \/ \E l \in PhysLinks : RyuLinkDelete(l)
    \/ TopologyChangeHandler
    \/ \E d \in Switches : StateChangeMain(d)
    \/ \E d \in Switches : StateChangeDead(d)
    \/ MonitorGetSwitch
    \/ BuildTopology
    \/ MstDone
    \/ JohnsonDone
    \/ ComputationRaises

JFInit ==
    /\ j_hosts = <<>>
    /\ j_out = NoOut

BBInit ==
    /\ bb_hosts = <<>>
    /\ bb_out = NoOut


\* a graph without nodes, kept with the order of its dicts
EmptyOrderedNet == [order |-> <<>>, adj |-> <<>>, port |-> <<>>]

JRInit ==
    /\ jr_switches = <<>>
    /\ jr_links = <<>>
    /\ johnson_rejects_unweighted = FALSE
    /\ jr_net = EmptyOrderedNet
    /\ jr_port_map = <<>>
    /\ jr_mst = NoMst
    /\ jr_all_paths = NoPaths

MFInit ==
    /\ mf_hosts = <<>>
    /\ mf_net = EmptyNet
    /\ mf_port_map = <<>>
    /\ mf_mst = NoMst
    /\ mf_all_paths = NoPaths
    /\ mf_pc = "sleep"
    /\ mf_switches = {}
    /\ mf_out = NoOut

MUInit ==
    /\ mu_hosts = <<>>
    /\ mu_arp_table = <<>>
    /\ mu_net = EmptyNet
    /\ mu_port_map = <<>>
    /\ mu_mst = NoMst
    /\ mu_all_paths = NoPaths
    /\ mu_last_topo_stats = <<-1, -1>>
    /\ mu_is_ready = FALSE
    /\ mu_topology_frozen = FALSE
    /\ mu_pc = "sleep"
    /\ mu_switches = {}
    /\ mu_out = NoOut
    /\ mu_frame = NoFrame

RingInit ==
    /\ ring_net = EmptyNet
    /\ ring_port_map = <<>>
    /\ ring_mst = NoMst
    /\ ring_hosts = <<>>
    /\ is_updating = FALSE
    /\ ring_pc = [r \in Runs |-> "none"]
    /\ ring_switches = [r \in Runs |-> {}]
    /\ ring_out = NoOut

----------------------------------------------------------------------------
(* BellmanFatTreeController, controller_bellman_fattree_v2.py *)

\* the fabric of the Bellman-Ford controllers: three switches wired in a
\* triangle, one host on port 1 of switch 1 and one on port 1 of switch 3
BellmanLinks == {<<1, 2>>, <<2, 3>>, <<1, 3>>}
Macs == {"h1", "h2"}
HostSwitch(m) == IF m = "h1" THEN 1 ELSE 3
HostPorts == {1}

Wired(u, v) == <<u, v>> \in wiring \/ <<v, u>> \in wiring

\* every link of the fabric is up
PhysInit ==
    /\ link_down = {} /\ wiring = BellmanLinks /\ lldp_in_flight = {}
    /\ bcast_in_flight = {} /\ bcast_handled = [d \in Switches |-> 0]

Keys(t) == DOMAIN t

\* datapath.ports of switch d up to OFPP_MAX: the host port and the ports
\* wired to other switches
LocalPorts(d) ==
    HostPorts \cup {PortTo(d, w) : w \in {x \in Endpoints(wiring) : Wired(d, x)}}

\* a packet-out on a computed port list, no add_flow
Flooded(d, in_port, ports) ==
    [kind |-> "flood", dpid |-> d, in_port |-> in_port, ports |-> ports,
     rule |-> FALSE]

\* add_flow(eth_dst = dst, output port) and a packet-out on that port
Unicast(d, in_port, port) ==
    [kind |-> "unicast", dpid |-> d, in_port |-> in_port, ports |-> {port},
     rule |-> TRUE]

\* the (src, dst) pairs of self.topology
TopoPairs(t) == {sd \in Keys(t) \X Switches : sd[2] \in DOMAIN t[sd[1]]}

\* hash((sorted keys, sorted pairs)); the tuple stands for its hash value
B2TopoHash(t) == <<Keys(t), TopoPairs(t)>>

\* the nx.Graph G that _topology_updater builds
B2Graph(t) ==
    [present |-> TRUE,
     nodes |-> Keys(t) \cup {sd[2] : sd \in TopoPairs(t)},
     edges |-> Und(TopoPairs(t))]

\* self.mst after a tick that found G connected
B2MstOf(g) == g

\* self.mst after a tick that found G disconnected
B2MstWhenDisconnected(old) == old

\* self.path_cache after a tick that found G disconnected, or no switch
B2CacheWhenNotReady(cache) == cache

\* directed pairs of an undirected edge set
Dir(UE) == {uv \in Switches \X Switches : {uv[1], uv[2]} \in UE /\ uv[1] # uv[2]}

\* _get_path: the paths it can return (NoPaths when it returns None)
B2GetPathResults(s, d) ==
    IF <<s, d>> \in DOMAIN b2_path_cache THEN {b2_path_cache[<<s, d>>]}
    ELSE IF ~b2_topology_ready THEN {NoPaths}
    ELSE IF b2_mst.present /\ b2_mst.nodes # {}
            /\ s \in b2_mst.nodes /\ d \in b2_mst.nodes
            /\ PathsBetween(b2_mst.nodes, Dir(b2_mst.edges), s, d) # {}
    THEN ShortestPaths(b2_mst.nodes, Dir(b2_mst.edges), s, d)
    ELSE {NoPaths}

\* self.path_cache after _get_path(s, d) returned p
B2CacheAfterGetPath(s, d, p) ==
    IF <<s, d>> \in DOMAIN b2_path_cache \/ p = NoPaths THEN b2_path_cache
    ELSE [k \in DOMAIN b2_path_cache \cup {<<s, d>>} |->
             IF k = <<s, d>> THEN p ELSE b2_path_cache[k]]

B2Init ==
    /\ b2_datapaths = {}
    /\ topology = <<>>
    /\ b2_mst = NoMst
    /\ b2_topology_ready = FALSE
    /\ b2_path_cache = <<>>
    /\ last_hash = NoHash
    /\ b2_hosts = <<>>
    /\ b2_out = NoOut

\* _state_change_handler, MAIN_DISPATCHER
B2StateChangeMain(d) ==
    /\ b2_datapaths' = b2_datapaths \cup {d}
    /\ topology' =
          IF d \in b2_datapaths \/ d \in Keys(topology) THEN topology
          ELSE [k \in Keys(topology) \cup {d} |->
                   IF k = d THEN <<>> ELSE topology[k]]
    /\ Silent
    /\ UNCHANGED <<notB2, b2_mst, b2_topology_ready, b2_path_cache, last_hash,
                   b2_hosts>>

\* self.topology without switch d and without the edges that lead to it
WithoutSwitch(t, d) ==
    [k \in Keys(t) \ {d} |-> [n \in DOMAIN t[k] \ {d} |-> t[k][n]]]

\* _state_change_handler, DEAD_DISPATCHER
B2StateChangeDead(d) ==
    /\ b2_datapaths' = b2_datapaths \ {d}
    /\ topology' =
          IF d \in b2_datapaths /\ d \in Keys(topology)
          THEN WithoutSwitch(topology, d) ELSE topology
    /\ Silent
    /\ UNCHANGED <<notB2, b2_mst, b2_topology_ready, b2_path_cache, last_hash,
                   b2_hosts>>

\* self.topology[a][b] = port, on a defaultdict(dict)
SetEdge(t, a, b, port) ==
    [k \in Keys(t) \cup {a} |->
        IF k = a
        THEN [n \in (IF a \in Keys(t) THEN DOMAIN t[a] ELSE {}) \cup {b} |->
                 IF n = b THEN port ELSE t[a][n]]
        ELSE t[k]]

\* _packet_in_handler for an LLDP frame that switch src sent towards dpid:
\* _handle_lldp.  _send_lldp_packets sends the frame through a datapath of
\* self.datapaths.
B2PacketInLldp(dpid, src) ==
    /\ dpid \in b2_datapaths
    /\ src \in b2_datapaths
    /\ Wired(dpid, src)
    /\ topology' = SetEdge(SetEdge(topology, dpid, src, PortTo(dpid, src)),
                           src, dpid, PortTo(src, dpid))
    /\ Silent
    /\ UNCHANGED <<notB2, b2_datapaths, b2_mst, b2_topology_ready,
                   b2_path_cache, last_hash, b2_hosts>>

\* self.hosts after "if src not in self.hosts: self.hosts[src] = (dpid, in_port)"
Learn(hosts, src, dpid, in_port) ==
    IF src \in DOMAIN hosts THEN hosts
    ELSE [m \in DOMAIN hosts \cup {src} |->
             IF m = src THEN <<dpid, in_port>> ELSE hosts[m]]

\* where a frame of host src can come in: at its own switch on the host
\* port, or, once that switch has handed it on, on a wired port elsewhere
FrameCanArrive(hosts, dpid, in_port, src) ==
    \/ dpid = HostSwitch(src) /\ in_port \in HostPorts
    \/ /\ src \in DOMAIN hosts
       /\ \E w \in Endpoints(wiring) : Wired(dpid, w) /\ in_port = PortTo(dpid, w)

\* self.topology[d] on the defaultdict
TopoOf(t, d) == IF d \in Keys(t) THEN t[d] ELSE <<>>

\* _flood: the ports of the OFPActionOutput list it builds
B2Flood(d, in_port) ==
    LET t == TopoOf(topology, d)
        mst_ports == {t[n] : n \in {x \in DOMAIN t : {d, x} \in b2_mst.edges}}
        topology_ports == {t[n] : n \in DOMAIN t}
        host_ports == {p \in LocalPorts(d) :
                          p \notin topology_ports /\ p # in_port}
    IN  IF b2_topology_ready /\ b2_mst.present
        THEN mst_ports \cup host_ports
        ELSE {p \in LocalPorts(d) : p # in_port}

\* what _packet_in_handler sends for a frame to dst when _get_path returns
\* path, hosts being self.hosts after the source was learned
B2Decision(dpid, in_port, dst, is_arp, hosts, path) ==
    LET flood == Flooded(dpid, in_port, B2Flood(dpid, in_port))
    IN  IF is_arp \/ dst \notin DOMAIN hosts THEN flood
        ELSE IF dpid = hosts[dst][1] THEN Unicast(dpid, in_port, hosts[dst][2])
        ELSE IF path = NoPaths \/ Len(path) < 2 THEN flood
        ELSE IF path[2] \notin DOMAIN TopoOf(topology, dpid) THEN flood
        ELSE Unicast(dpid, in_port, TopoOf(topology, dpid)[path[2]])

\* _packet_in_handler for a frame that is not LLDP
B2PacketIn(dpid, in_port, src, dst, is_arp) ==
    /\ dpid \in b2_datapaths
    /\ src # dst
    /\ FrameCanArrive(b2_hosts, dpid, in_port, src)
    /\ b2_hosts' = Learn(b2_hosts, src, dpid, in_port)
    /\ IF is_arp \/ dst \notin DOMAIN b2_hosts' \/ b2_hosts'[dst][1] = dpid
       THEN /\ b2_path_cache' = b2_path_cache
            /\ b2_out' = B2Decision(dpid, in_port, dst, is_arp, b2_hosts', NoPaths)
       ELSE \E p \in B2GetPathResults(dpid, b2_hosts'[dst][1]) :
               /\ b2_path_cache' = B2CacheAfterGetPath(dpid, b2_hosts'[dst][1], p)
               /\ b2_out' = B2Decision(dpid, in_port, dst, is_arp, b2_hosts', p)
    /\ j_out' = NoOut
    /\ ring_out' = NoOut
    /\ bb_out' = NoOut
    /\ mu_out' = NoOut
    /\ mu_frame' = NoFrame
    /\ mf_out' = NoOut
    /\ UNCHANGED <<notB2, b2_datapaths, topology, b2_mst, b2_topology_ready,
                   last_hash>>

\* one round of _topology_updater that finds the hash changed
B2TopologyUpdater ==
    /\ B2TopoHash(topology) # last_hash
    /\ last_hash' = B2TopoHash(topology)
    /\ LET G == B2Graph(topology)
       IN  IF Keys(topology) # {} /\ IsConnected(G.nodes, G.edges)
           THEN /\ b2_mst' = B2MstOf(G)
                /\ b2_topology_ready' = TRUE
                /\ b2_path_cache' = <<>>
           ELSE /\ b2_mst' = B2MstWhenDisconnected(b2_mst)
                /\ b2_topology_ready' = FALSE
                /\ b2_path_cache' = B2CacheWhenNotReady(b2_path_cache)
    /\ Silent
    /\ UNCHANGED <<notB2, b2_datapaths, topology, b2_hosts>>

B2Next ==
    \/ \E d \in Switches : B2StateChangeMain(d)
    \/ \E d \in Switches : B2StateChangeDead(d)
    \/ \E d, w \in Switches : B2PacketInLldp(d, w)
    \/ \E d \in Switches, port \in 1..4, src, dst \in Macs, is_arp \in BOOLEAN :
          B2PacketIn(d, port, src, dst, is_arp)
    \/ B2TopologyUpdater

----------------------------------------------------------------------------
(* BellmanFatTreeController, controller_bellman_fattree_fixed.py *)

\* hash((sorted nodes, sorted edges)); the tuple stands for its hash value
BFTopoHash(n) == <<n.nodes, Edges(n)>>

\* self.net.add_edge(u, v, port=p)
AddEdge(n, u, v, p) ==
    [nodes |-> n.nodes \cup {u, v},
     port  |-> [e \in Edges(n) \cup {<<u, v>>} |->
                   IF e = <<u, v>> THEN p ELSE n.port[e]]]

\* a removal that takes the node and its out-edges but leaves its in-edges
RemoveNodeOutEdgesOnly(n, d) ==
    [nodes |-> n.nodes \ {d},
     port  |-> [e \in {x \in Edges(n) : x[1] # d} |-> n.port[e]]]

\* self.net without node d and without its in- and out-edges
RemoveNode(n, d) ==
    [nodes |-> n.nodes \ {d},
     port  |-> [e \in {x \in Edges(n) : x[1] # d /\ x[2] # d} |-> n.port[e]]]

\* self.port_map[a][port] = b, creating self.port_map[a] when it is missing
SetPort(pm, a, port, b) ==
    [k \in DOMAIN pm \cup {a} |->
        IF k = a
        THEN [q \in (IF a \in DOMAIN pm THEN DOMAIN pm[a] ELSE {}) \cup {port} |->
                 IF q = port THEN b ELSE pm[a][q]]
        ELSE pm[k]]

\* _get_path: the paths it can return (NoPaths when it returns None); the
\* cache is looked up first, then nx.bellman_ford_path runs on self.net
BFGetPathResults(s, d) ==
    IF <<s, d>> \in DOMAIN bf_path_cache THEN {bf_path_cache[<<s, d>>]}
    ELSE IF ~bf_topology_ready THEN {NoPaths}
    ELSE IF s \in bf_net.nodes /\ d \in bf_net.nodes
            /\ PathsBetween(bf_net.nodes, Edges(bf_net), s, d) # {}
    THEN ShortestPaths(bf_net.nodes, Edges(bf_net), s, d)
    ELSE {NoPaths}

\* self.path_cache after _get_path(s, d) returned p
BFCacheAfterGetPath(s, d, p) ==
    IF <<s, d>> \in DOMAIN bf_path_cache \/ p = NoPaths THEN bf_path_cache
    ELSE [k \in DOMAIN bf_path_cache \cup {<<s, d>>} |->
             IF k = <<s, d>> THEN p ELSE bf_path_cache[k]]

\* the keys of new_cache in _precompute_paths
PrecomputePairs ==
    LET host_switches == {bf_hosts[m][1] : m \in DOMAIN bf_hosts}
    IN  {sd \in host_switches \X host_switches :
            /\ sd[1] # sd[2]
            /\ sd[1] \in bf_net.nodes
            /\ PathsBetween(bf_net.nodes, Edges(bf_net), sd[1], sd[2]) # {}}

BFInit ==
    /\ bf_datapaths = {}
    /\ bf_net = EmptyNet
    /\ bf_port_map = <<>>
    /\ bf_mst = NoMst
    /\ bf_path_cache = <<>>
    /\ bf_topology_ready = FALSE
    /\ last_topo_hash = NoHash
    /\ bf_hosts = <<>>

\* _state_change_handler, MAIN_DISPATCHER
BFStateChangeMain(d) ==
    /\ bf_datapaths' = bf_datapaths \cup {d}
    /\ IF d \in bf_datapaths
       THEN UNCHANGED <<bf_net, bf_port_map>>
       ELSE /\ bf_net' = [bf_net EXCEPT !.nodes = @ \cup {d}]
            /\ bf_port_map' =
                  IF d \in DOMAIN bf_port_map THEN bf_port_map
                  ELSE [k \in DOMAIN bf_port_map \cup {d} |->
                           IF k = d THEN <<>> ELSE bf_port_map[k]]
    /\ Silent
    /\ UNCHANGED <<notBF, bf_mst, bf_path_cache, bf_topology_ready,
                   last_topo_hash, bf_hosts>>

\* _state_change_handler, DEAD_DISPATCHER
BFStateChangeDead(d) ==
    /\ bf_datapaths' = bf_datapaths \ {d}
    /\ IF d \in bf_datapaths
       THEN /\ bf_net' = IF d \in bf_net.nodes THEN RemoveNode(bf_net, d)
                         ELSE bf_net
            /\ bf_port_map' = [k \in DOMAIN bf_port_map \ {d} |-> bf_port_map[k]]
       ELSE UNCHANGED <<bf_net, bf_port_map>>
    /\ Silent
    /\ UNCHANGED <<notBF, bf_mst, bf_path_cache, bf_topology_ready,
                   last_topo_hash, bf_hosts>>

\* _packet_in_handler for an LLDP frame that switch src sent towards dpid:
\* _handle_lldp.  _send_lldp_packets sends the frame through a datapath of
\* self.datapaths.
BFPacketInLldp(dpid, src) ==
    /\ dpid \in bf_datapaths
    /\ src \in bf_datapaths
    /\ Wired(dpid, src)
    /\ bf_net' = AddEdge(AddEdge(bf_net, dpid, src, PortTo(dpid, src)),
                         src, dpid, PortTo(src, dpid))
    /\ bf_port_map' = SetPort(SetPort(bf_port_map, dpid, PortTo(dpid, src), src),
                              src, PortTo(src, dpid), dpid)
    /\ Silent
    /\ UNCHANGED <<notBF, bf_datapaths, bf_mst, bf_path_cache,
                   bf_topology_ready, last_topo_hash, bf_hosts>>

\* _send_lldp_packets: one LLDP frame out of every port of every switch of
\* self.datapaths; the frames on wired ports travel to the far switch
BFSendLldpPackets ==
    /\ bf_datapaths # {}
    /\ lldp_in_flight' = lldp_in_flight \cup
          {sd \in bf_datapaths \X Endpoints(wiring) : Wired(sd[1], sd[2])}
    /\ Silent
    /\ UNCHANGED <<jvars, b2vars, bfvars, jfvars, ringvars, bbvars, muvars,
                   jrvars, mfvars, bcastvars, link_down, wiring>>

\* _packet_in_handler for an LLDP frame of switch src that has reached
\* dpid: _handle_lldp.  Nothing in it looks at self.datapaths.
BFLldpArrives(dpid, src) ==
    /\ dpid \in bf_datapaths
    /\ <<src, dpid>> \in lldp_in_flight
    /\ lldp_in_flight' = lldp_in_flight \ {<<src, dpid>>}
    /\ bf_net' = AddEdge(AddEdge(bf_net, dpid, src, PortTo(dpid, src)),
                         src, dpid, PortTo(src, dpid))
    /\ bf_port_map' = SetPort(SetPort(bf_port_map, dpid, PortTo(dpid, src), src),
                              src, PortTo(src, dpid), dpid)
    /\ Silent
    /\ UNCHANGED <<jvars, b2vars, jfvars, ringvars, bbvars, muvars, jrvars,
                   mfvars, bcastvars,
                   link_down, wiring, bf_datapaths, bf_mst, bf_path_cache,
                   bf_topology_ready, last_topo_hash, bf_hosts>>

\* _packet_in_handler for a frame that is not LLDP.  What it sends to the
\* switch leaves the controller's state alone, and so does the KeyError of
\* self.net[dpid][next_hop] on a path whose first link is gone.
BFPacketIn(dpid, in_port, src, dst, is_arp) ==
    /\ dpid \in bf_datapaths
    /\ src # dst
    /\ FrameCanArrive(bf_hosts, dpid, in_port, src)
    /\ bf_hosts' = Learn(bf_hosts, src, dpid, in_port)
    /\ IF is_arp \/ dst \notin DOMAIN bf_hosts' \/ bf_hosts'[dst][1] = dpid
       THEN bf_path_cache' = bf_path_cache
       ELSE \E p \in BFGetPathResults(dpid, bf_hosts'[dst][1]) :
               bf_path_cache' = BFCacheAfterGetPath(dpid, bf_hosts'[dst][1], p)
    /\ Silent
    /\ UNCHANGED <<notBF, bf_datapaths, bf_net, bf_port_map, bf_mst,
                   bf_topology_ready, last_topo_hash>>

\* _packet_in_handler for a frame that is not LLDP: how it can end.  "raise"
\* is the KeyError of self.net[dpid][next_hop], which no try encloses;
\* "drop" is the return on an edge without a port.
BFOutcomes(dpid, in_port, src, dst, is_arp) ==
    LET hosts == Learn(bf_hosts, src, dpid, in_port)
    IN  IF is_arp \/ dst \notin DOMAIN hosts THEN {"flood"}
        ELSE IF hosts[dst][1] = dpid THEN {"unicast"}
        ELSE {IF p = NoPaths \/ Len(p) < 2 THEN "flood"
              ELSE IF <<dpid, p[2]>> \notin Edges(bf_net) THEN "raise"
              ELSE "unicast" : p \in BFGetPathResults(dpid, hosts[dst][1])}

\* one round of _topology_updater: _update_topology_state, on a graph that
\* is empty or whose hash changed (it returns at once on an equal hash)
BFUpdateTopologyState ==
    /\ bf_net.nodes = {} \/ BFTopoHash(bf_net) # last_topo_hash
    /\ IF bf_net.nodes = {}
       THEN /\ bf_topology_ready' = FALSE
            /\ UNCHANGED <<bf_mst, bf_path_cache, last_topo_hash>>
       ELSE /\ last_topo_hash' = BFTopoHash(bf_net)
            /\ bf_path_cache' = <<>>
            /\ IF IsConnected(bf_net.nodes, Und(Edges(bf_net)))
               THEN /\ \E T \in SpanningTrees(bf_net.nodes, Und(Edges(bf_net))) :
                          bf_mst' = Tree(bf_net.nodes, T)
                    /\ bf_topology_ready' = TRUE
               ELSE /\ bf_mst' = NoMst
                    /\ bf_topology_ready' = FALSE
    /\ Silent
    /\ UNCHANGED <<notBF, bf_datapaths, bf_net, bf_port_map, bf_hosts>>

\* one round of _path_precompute_worker that reaches _precompute_paths; the
\* function does not block, so it runs on one state of self.net
BFPrecomputePaths ==
    /\ bf_topology_ready
    /\ Cardinality(DOMAIN bf_hosts) >= 2
    /\ \E new_cache \in ChoosePaths(bf_net.nodes, Edges(bf_net), PrecomputePairs) :
          bf_path_cache' = new_cache @@ bf_path_cache
    /\ Silent
    /\ UNCHANGED <<notBF, bf_datapaths, bf_net, bf_port_map, bf_mst,
                   bf_topology_ready, last_topo_hash, bf_hosts>>

BFNext ==
    \/ \E d \in Switches : BFStateChangeMain(d)
    \/ \E d \in Switches : BFStateChangeDead(d)
    \/ \E d, w \in Switches : BFPacketInLldp(d, w)
    \/ \E d \in Switches, port \in 1..4, src, dst \in Macs, is_arp \in BOOLEAN :
          BFPacketIn(d, port, src, dst, is_arp)
    \/ BFUpdateTopologyState
    \/ BFPrecomputePaths

\* link discovery with LLDP frames that take time to arrive
BFDiscoveryNext ==
    \/ \E d \in Switches : BFStateChangeMain(d)
    \/ \E d \in Switches : BFStateChangeDead(d)
    \/ BFSendLldpPackets
    \/ \E d, src \in Switches : BFLldpArrives(d, src)
    \/ BFUpdateTopologyState

\* a switch-to-switch link goes down; the other links stay up, so the fabric
\* stays connected.  The controller subscribes to no port or link event.
LinkGoesDown(l) ==
    /\ link_down = {}
    /\ link_down' = {l}
    /\ UNCHANGED <<wiring, lldp_in_flight>>
    /\ Silent
    /\ UNCHANGED <<jvars, b2vars, bfvars, jfvars, ringvars, bbvars, muvars,
                   jrvars, mfvars, bcastvars>>

LinkUp(u, v) == <<u, v>> \notin link_down /\ <<v, u>> \notin link_down

\* an LLDP frame of _send_lldp_packets crosses a link only while it is up
BFLldpOverLink(dpid, src) ==
    /\ LinkUp(dpid, src)
    /\ BFPacketInLldp(dpid, src)

\* the frames of a flow between two hosts, sent without pause
BFFlowFrame(src, dst) ==
    BFPacketIn(HostSwitch(src), CHOOSE p \in HostPorts : TRUE, src, dst, FALSE)

\* the controller with its switches staying connected while a link fails
BFLinkDownNext ==
    \/ \E d \in Switches : BFStateChangeMain(d)
    \/ \E l \in BellmanLinks : LinkGoesDown(l)
    \/ \E d, w \in Switches : BFLldpOverLink(d, w)
    \/ \E src, dst \in Macs : BFFlowFrame(src, dst)
    \/ BFUpdateTopologyState
    \/ BFPrecomputePaths

\* the three loops (_lldp_sender every 5 s, _topology_updater every 10 s,
\* _path_precompute_worker every 15 s) and the event loop keep running, and
\* the hosts keep sending
BFLinkDownFairness ==
    /\ WF_vars(\E d \in Switches : BFStateChangeMain(d))
    /\ WF_vars(\E d, w \in Switches : BFLldpOverLink(d, w))
    /\ WF_vars(BFUpdateTopologyState)
    /\ WF_vars(BFPrecomputePaths)
    /\ WF_vars(\E src, dst \in Macs : BFFlowFrame(src, dst))

----------------------------------------------------------------------------
(* Frame handling of JohnsonFatTreeController, controller_fattree_johnson_v2.py *)

\* pm.get(d, {}).get(p); 0 stands for None
Neighbor(pm, d, p) ==
    IF d \in DOMAIN pm /\ p \in DOMAIN pm[d] THEN pm[d][p] ELSE 0

\* the elements of a sequence
Range(q) == {q[i] : i \in DOMAIN q}

SkipsNothing(port_no, in_port) == FALSE

FloodsOffTree(tree, d, neighbor_dpid) == TRUE

\* "if port_no == in_port: continue"
SkipsPort(port_no, in_port) == port_no = in_port

\* self.mst.has_edge(dpid, neighbor_dpid)
MstHasEdge(tree, d, neighbor_dpid) == {d, neighbor_dpid} \in tree.edges

RECURSIVE FloodActions(_, _, _)
\* the actions list that the loop of _intelligent_flood builds over the
\* ports `ports` of switch d, taken in ascending order
FloodActions(d, in_port, ports) ==
    IF ports = {} THEN <<>>
    ELSE LET port_no == CHOOSE x \in ports : \A y \in ports : x <= y
             rest == FloodActions(d, in_port, ports \ {port_no})
             neighbor_dpid == Neighbor(port_map, d, port_no)
         IN  IF SkipsPort(port_no, in_port) THEN rest
             ELSE IF neighbor_dpid # 0
             THEN (IF MstHasEdge(mst, d, neighbor_dpid)
                   THEN <<port_no>> \o rest ELSE rest)
             ELSE <<port_no>> \o rest

\* _intelligent_flood: the ports of the packet-out it sends, none when
\* self.mst is None
IntelligentFlood(d, in_port) ==
    IF ~mst.present THEN {} ELSE Range(FloodActions(d, in_port, LocalPorts(d)))

\* a handler that has no route for a destination on another switch
JDecisionWithoutRoute(dpid, in_port, dst, is_arp, hosts) ==
    IF ~is_arp /\ dst \in DOMAIN hosts /\ hosts[dst][1] = dpid
    THEN Unicast(dpid, in_port, hosts[dst][2])
    ELSE Flooded(dpid, in_port, IntelligentFlood(dpid, in_port))

\* what _packet_in_handler sends for a frame to dst, hosts being self.hosts
\* after the source was learned
JDecision(dpid, in_port, dst, is_arp, hosts) ==
    LET flood == Flooded(dpid, in_port, IntelligentFlood(dpid, in_port))
    IN  IF is_arp \/ dst \notin DOMAIN hosts THEN flood
        ELSE LET dst_dpid == hosts[dst][1]
                 dst_port == hosts[dst][2]
             IN  IF dpid = dst_dpid THEN Unicast(dpid, in_port, dst_port)
                 ELSE IF ~topology_ready \/ all_paths = NoPaths THEN flood
                 ELSE IF <<dpid, dst_dpid>> \notin DOMAIN all_paths THEN flood
                 ELSE LET path == all_paths[<<dpid, dst_dpid>>]
                      IN  IF Len(path) < 2 THEN flood
                          ELSE IF <<dpid, path[2]>> \notin Edges(net) THEN flood
                          ELSE Unicast(dpid, in_port, net.port[<<dpid, path[2]>>])

\* _packet_in_handler for a frame that is not LLDP (where the copies it
\* sends travel to is left to the specification that uses it)
JPacketIn(dpid, in_port, src, dst, is_arp) ==
    /\ dpid \in datapaths
    /\ src # dst
    /\ FrameCanArrive(j_hosts, dpid, in_port, src)
    /\ j_hosts' = Learn(j_hosts, src, dpid, in_port)
    /\ j_out' = JDecision(dpid, in_port, dst, is_arp, j_hosts')
    /\ ring_out' = NoOut
    /\ b2_out' = NoOut
    /\ bb_out' = NoOut
    /\ mu_out' = NoOut
    /\ mu_frame' = NoFrame
    /\ mf_out' = NoOut
    /\ UNCHANGED notJF

\* a handler without the LLDP test: the frame is learned and flooded
JPacketInLldpAsData(dpid, in_port) ==
    /\ dpid \in datapaths
    /\ \E w \in Endpoints(wiring) : Wired(dpid, w) /\ in_port = PortTo(dpid, w)
    /\ \E src \in Macs :
          /\ j_hosts' = Learn(j_hosts, src, dpid, in_port)
          /\ j_out' = Flooded(dpid, in_port, IntelligentFlood(dpid, in_port))
    /\ ring_out' = NoOut
    /\ b2_out' = NoOut
    /\ bb_out' = NoOut
    /\ mu_out' = NoOut
    /\ mu_frame' = NoFrame
    /\ mf_out' = NoOut
    /\ UNCHANGED <<notJF, bcastvars>>

\* _packet_in_handler for an LLDP frame, which comes in on a port that is
\* wired to another switch: the handler returns
JPacketInLldp(dpid, in_port) ==
    /\ dpid \in datapaths
    /\ \E w \in Endpoints(wiring) : Wired(dpid, w) /\ in_port = PortTo(dpid, w)
    /\ Silent
    /\ UNCHANGED <<notJF, bcastvars, j_hosts>>

\* the controller between two monitor cycles, all switches connected: the
\* graph and port map of the last observation (sw, links), the tree and the
\* routes of the last settled snapshot (links0), or none yet
JFramesInit ==
    /\ B2Init /\ BFInit /\ RingInit /\ BBInit /\ MUInit /\ JRInit /\ MFInit /\ PhysInit
    /\ variant = "v2"
    /\ datapaths = Switches
    /\ switch_count = Cardinality(Switches)
    /\ topo_event_pending = FALSE
    /\ computation_in_progress = FALSE
    /\ pc = "sleep"
    /\ mon_switches = {}
    /\ fresh_obs = -1
    /\ obs_since_dead = 3
    /\ ryu_switches \in SUBSET Switches
    /\ ryu_links \in SUBSET BellmanLinks
    /\ ~BuildRaisesKeyError(ryu_switches, ryu_links)
    /\ net = TempNet(ryu_switches, ryu_links)
    /\ port_map = TempPortMap(ryu_switches, ryu_links)
    /\ last_topology_hash = GetTopologyHash(net)
    /\ \/ /\ mst = NoMst
          /\ all_paths = NoPaths
          /\ topology_ready = FALSE
          /\ stable_counter = 0
       \/ \E links0 \in SUBSET BellmanLinks :
             LET net0 == TempNet(Switches, links0)
             IN  /\ IF IsConnected(net0.nodes, Und(Edges(net0)))
                    THEN \E t \in SpanningTrees(net0.nodes, Und(Edges(net0))) :
                            mst = Tree(net0.nodes, t)
                    ELSE mst = NoMst
                 /\ all_paths \in JohnsonResults(net0.nodes, Edges(net0))
                 /\ topology_ready = (net = net0)
                 /\ stable_counter = IF topology_ready THEN StabilityThreshold ELSE 0
    /\ j_hosts = <<>>
    /\ j_out = NoOut

JFramesNext ==
    \/ \E d \in Switches, port \in 1..4, src, dst \in Macs, is_arp \in BOOLEAN :
          JPacketIn(d, port, src, dst, is_arp) /\ UNCHANGED bcastvars
    \/ \E d \in Switches, port \in 1..4 : JPacketInLldp(d, port)

\* the controller between two monitor cycles on a fabric whose links are
\* all discovered: the graph and port map of the last observation, the tree
\* and the routes of the last settled snapshot (sw0, links0), taken when
\* fewer switches and links were up, or none yet
FloodInit ==
    /\ B2Init /\ BFInit /\ RingInit /\ BBInit /\ MUInit /\ JRInit /\ MFInit
    /\ link_down = {}
    /\ wiring \in SUBSET BellmanLinks
    /\ lldp_in_flight = {}
    /\ bcast_in_flight = {}
    /\ bcast_handled = [d \in Switches |-> 0]
    /\ variant = "v2"
    /\ datapaths = Switches
    /\ switch_count = Cardinality(Switches)
    /\ topo_event_pending = FALSE
    /\ computation_in_progress = FALSE
    /\ pc = "sleep"
    /\ mon_switches = {}
    /\ fresh_obs = -1
    /\ obs_since_dead = 3
    /\ ryu_switches = Switches
    /\ ryu_links = wiring
    /\ net = TempNet(ryu_switches, ryu_links)
    /\ port_map = TempPortMap(ryu_switches, ryu_links)
    /\ last_topology_hash = GetTopologyHash(net)
    /\ \/ /\ mst = NoMst
          /\ all_paths = NoPaths
          /\ topology_ready = FALSE
          /\ stable_counter = 0
       \/ \E sw0 \in SUBSET Switches, links0 \in SUBSET wiring :
             /\ Cardinality(sw0) >= 2
             /\ Endpoints(links0) \subseteq sw0
             /\ LET net0 == [nodes |-> sw0,
                             port |-> [e \in Dir(Und(links0)) |-> PortTo(e[1], e[2])]]
                IN  /\ IF IsConnected(net0.nodes, Und(Edges(net0)))
                       THEN \E t \in SpanningTrees(net0.nodes, Und(Edges(net0))) :
                               mst = Tree(net0.nodes, t)
                       ELSE mst = NoMst
                    /\ all_paths \in JohnsonResults(net0.nodes, Edges(net0))
                    /\ topology_ready = (net = net0)
                    /\ stable_counter =
                          IF topology_ready THEN StabilityThreshold ELSE 0
    /\ j_hosts = <<>>
    /\ j_out = NoOut

\* a host sends one broadcast frame into its switch
HostSendsBroadcast(src) ==
    /\ bcast_in_flight = {}
    /\ \A d \in Switches : bcast_handled[d] = 0
    /\ bcast_in_flight' = {<<HostSwitch(src), CHOOSE p \in HostPorts : TRUE, src>>}
    /\ bcast_handled' = bcast_handled
    /\ Silent
    /\ UNCHANGED <<notJF, j_hosts>>

\* the far ends of the switch-to-switch ports among `ports` of switch d
FarEnds(d, ports, src) ==
    {<<w, PortTo(w, d), src>> :
        w \in {x \in Switches : Wired(d, x) /\ PortTo(d, x) \in ports}}

\* _packet_in_handler for one copy of the broadcast frame; what it sends
\* on a wired port comes in at the switch on the far end
JFloodHop(d, in_port, src) ==
    /\ <<d, in_port, src>> \in bcast_in_flight
    /\ \E dst \in Macs : JPacketIn(d, in_port, src, dst, TRUE)
    /\ bcast_in_flight' = (bcast_in_flight \ {<<d, in_port, src>>})
                             \cup FarEnds(d, j_out'.ports, src)
    /\ bcast_handled' = [bcast_handled EXCEPT ![d] = Min(@ + 1, 2)]

FloodNext ==
    \/ \E src \in Macs : HostSendsBroadcast(src)
    \/ \E d \in Switches, port \in 1..4, src \in Macs : JFloodHop(d, port, src)

\* the controller at the moment the fabric has come to rest, every switch
\* connected and the registered links connected: the graph of its last
\* observation (links1), the tree and routes of its last settled snapshot
\* (links0) or none yet, the gate open only over the tables of the graph
\* in self.net, the monitor asleep or waiting for nx.johnson
SettleInit ==
    /\ B2Init /\ BFInit /\ JFInit /\ RingInit /\ BBInit /\ MUInit /\ JRInit
    /\ MFInit /\ PhysInit
    /\ variant = "v2"
    /\ datapaths = Switches
    /\ switch_count = Cardinality(Switches)
    /\ topo_event_pending = FALSE
    /\ mon_switches = {}
    /\ fresh_obs = -1
    /\ obs_since_dead = 3
    /\ ryu_switches = Switches
    /\ ryu_links \in SUBSET BellmanLinks
    /\ IsConnected(Switches, Und(ryu_links))
    /\ \E links1 \in SUBSET BellmanLinks :
          /\ net = TempNet(Switches, links1)
          /\ port_map = TempPortMap(Switches, links1)
    /\ last_topology_hash = GetTopologyHash(net)
    /\ stable_counter \in 0..StabilityThreshold
    /\ \/ /\ mst = NoMst
          /\ all_paths = NoPaths
          /\ topology_ready = FALSE
          /\ pc = "sleep"
       \/ \E links0 \in SUBSET BellmanLinks :
             LET net0 == TempNet(Switches, links0)
                 \* tables of the graph that is still in self.net
                 current == net0 = net /\ stable_counter = StabilityThreshold
             IN  /\ IF IsConnected(net0.nodes, Und(Edges(net0)))
                    THEN \E t \in SpanningTrees(net0.nodes, Und(Edges(net0))) :
                            mst = Tree(net0.nodes, t)
                    ELSE mst = NoMst
                 /\ all_paths \in JohnsonResults(net0.nodes, Edges(net0))
                 /\ \/ pc = "sleep" /\ topology_ready \in {FALSE, current}
                    \/ pc = "johnson" /\ current /\ topology_ready = FALSE
    /\ computation_in_progress = (pc = "johnson")

\* the monitor loop on a fabric at rest
SettleNext ==
    \/ MonitorGetSwitch
    \/ BuildTopology
    \/ MstDone
    \/ JohnsonDone

\* the monitor wakes up every 30 s, the topology service answers and the
\* thread pool returns (the step that ends the wait for nx.johnson is
\* JohnsonDone)
SettleFairness ==
    /\ WF_vars(MonitorGetSwitch)
    /\ WF_vars(BuildTopology)
    /\ WF_vars(MstDone)
    /\ WF_pc(pc = "johnson" /\ pc' = "sleep")

----------------------------------------------------------------------------
(* BellmanRingController, controller_bellman_ring.py.  It subscribes to the *)
(* events of the stable Johnson controller and builds temp_net and          *)
(* temp_port_map as that controller does (variant = "stable").              *)

\* _topology_event_handler: hub.spawn(self._build_optimal_topology) unless
\* self.is_updating is set.  The new green thread is created here and runs
\* its first statement when the hub schedules it.
RingTopologyEventHandler ==
    /\ topo_event_pending
    /\ topo_event_pending' = FALSE
    /\ IF is_updating THEN ring_pc' = ring_pc
       ELSE \E r \in Runs :
               /\ ring_pc[r] = "none"
               /\ \A q \in Runs : q < r => ring_pc[q] # "none"
               /\ ring_pc' = [ring_pc EXCEPT ![r] = "spawned"]
    /\ Silent
    /\ UNCHANGED <<notRing, variant, ryu_switches, ryu_links, datapaths,
                   switch_count, net, port_map, mst, all_paths, stable_counter,
                   last_topology_hash, topology_ready, computation_in_progress,
                   pc, mon_switches, fresh_obs, obs_since_dead,
                   ring_net, ring_port_map, ring_mst, ring_hosts, is_updating,
                   ring_switches>>

\* _build_optimal_topology, run r, from its first statement to hub.sleep
RingBuildStart(r) ==
    /\ ring_pc[r] = "spawned"
    /\ is_updating' = TRUE
    /\ ring_pc' = [ring_pc EXCEPT ![r] = "sleep"]
    /\ Silent
    /\ UNCHANGED <<notRing, jvars, ring_net, ring_port_map, ring_mst, ring_hosts,
                   ring_switches>>

\* _build_optimal_topology after hub.sleep(0.5): the reply of get_switch
RingGetSwitch(r) ==
    /\ ring_pc[r] = "sleep"
    /\ ring_switches' = [ring_switches EXCEPT ![r] = ryu_switches]
    /\ ring_pc' = [ring_pc EXCEPT ![r] = "get_link"]
    /\ Silent
    /\ UNCHANGED <<notRing, jvars, ring_net, ring_port_map, ring_mst, ring_hosts,
                   is_updating>>

\* the runs in the order they were spawned, once run r has ended
Ended(f, r, none) ==
    [q \in Runs |-> IF q < r THEN f[q]
                    ELSE IF q < MaxRuns THEN f[q + 1] ELSE none]

\* _build_optimal_topology from the reply of get_link to its end
RingBuild(r) ==
    /\ ring_pc[r] = "get_link"
    /\ ring_net' = TempNet(ring_switches[r], ryu_links)
    /\ ring_port_map' = TempPortMap(ring_switches[r], ryu_links)
    /\ IF ring_net'.nodes = {} THEN ring_mst' = ring_mst
       ELSE IF IsConnected(ring_net'.nodes, Und(Edges(ring_net')))
       THEN \E t \in SpanningTrees(ring_net'.nodes, Und(Edges(ring_net'))) :
               ring_mst' = Tree(ring_net'.nodes, t)
       ELSE ring_mst' = NoMst
    /\ is_updating' = FALSE
    /\ ring_pc' = Ended(ring_pc, r, "none")
    /\ ring_switches' = Ended(ring_switches, r, {})
    /\ Silent
    /\ UNCHANGED <<notRing, jvars, ring_hosts>>

RECURSIVE RingFloodActions(_, _, _)
\* the actions list that the loop of _intelligent_flood builds over the
\* ports `ports` of switch d, taken in ascending order
RingFloodActions(d, in_port, ports) ==
    IF ports = {} THEN <<>>
    ELSE LET port_no == CHOOSE x \in ports : \A y \in ports : x <= y
             rest == RingFloodActions(d, in_port, ports \ {port_no})
             neighbor_dpid == Neighbor(ring_port_map, d, port_no)
         IN  IF port_no = in_port THEN rest
             ELSE IF port_no = 1 THEN <<port_no>> \o rest
             ELSE IF neighbor_dpid # 0
                     /\ ring_mst.present /\ {d, neighbor_dpid} \in ring_mst.edges
             THEN <<port_no>> \o rest
             ELSE rest

\* a handler that has no route for a destination on another switch
RingDecisionWithoutRoute(dpid, in_port, dst, is_arp, hosts) ==
    IF ~is_arp /\ dst \in DOMAIN hosts /\ hosts[dst][1] = dpid
    THEN Unicast(dpid, in_port, hosts[dst][2])
    ELSE Flooded(dpid, in_port,
                 Range(RingFloodActions(dpid, in_port, LocalPorts(dpid))))

\* what _packet_in_handler sends for a frame to dst, hosts being self.hosts
\* after the source was learned
RingDecision(dpid, in_port, dst, is_arp, hosts) ==
    LET flood == Flooded(dpid, in_port,
                         Range(RingFloodActions(dpid, in_port, LocalPorts(dpid))))
    IN  IF is_arp \/ dst \notin DOMAIN hosts THEN flood
        ELSE LET dst_dpid == hosts[dst][1]
                 dst_port == hosts[dst][2]
             IN  IF dpid = dst_dpid THEN Unicast(dpid, in_port, dst_port)
                 ELSE IF Edges(ring_net) = {} \/ ~ring_mst.present THEN flood
                 ELSE IF \/ dpid \notin ring_net.nodes
                         \/ dst_dpid \notin ring_net.nodes
                         \/ PathsBetween(ring_net.nodes, Edges(ring_net),
                                         dpid, dst_dpid) = {}
                 THEN flood
                 ELSE LET path == CHOOSE q \in ShortestPaths(ring_net.nodes,
                                       Edges(ring_net), dpid, dst_dpid) : TRUE
                      IN  Unicast(dpid, in_port, ring_net.port[<<dpid, path[2]>>])

\* _packet_in_handler for a frame that is not LLDP
RingPacketIn(dpid, in_port, src, dst, is_arp) ==
    /\ dpid \in ryu_switches
    /\ src # dst
    /\ FrameCanArrive(ring_hosts, dpid, in_port, src)
    /\ ring_hosts' = Learn(ring_hosts, src, dpid, in_port)
    /\ ring_out' = RingDecision(dpid, in_port, dst, is_arp, ring_hosts')
    /\ j_out' = NoOut
    /\ b2_out' = NoOut
    /\ bb_out' = NoOut
    /\ mu_out' = NoOut
    /\ mu_frame' = NoFrame
    /\ mf_out' = NoOut
    /\ UNCHANGED <<notRing, jvars, ring_net, ring_port_map, ring_mst,
                   is_updating, ring_pc, ring_switches>>

\* the topology events and the runs they start, without frames
RingEventsNext ==
    \/ \E d \in Switches : RyuSwitchEnter(d)
    \/ \E d \in Switches : RyuSwitchLeave(d)
    \/ \E l \in BellmanLinks : RyuLinkAdd(l)
    \/ \E l \in BellmanLinks : RyuLinkDelete(l)
    \/ RingTopologyEventHandler
    \/ \E r \in Runs : RingBuildStart(r)
    \/ \E r \in Runs : RingGetSwitch(r)
    \/ \E r \in Runs : RingBuild(r)

\* frames on a fabric that comes up (switches and links stay registered in
\* this specification)
RingNext ==
    \/ \E d \in Switches : RyuSwitchEnter(d)
    \/ \E l \in BellmanLinks : RyuLinkAdd(l)
    \/ RingTopologyEventHandler
    \/ \E r \in Runs : RingBuildStart(r)
    \/ \E r \in Runs : RingGetSwitch(r)
    \/ \E r \in Runs : RingBuild(r)
    \/ \E d \in Switches, port \in 1..4, src, dst \in Macs, is_arp \in BOOLEAN :
          RingPacketIn(d, port, src, dst, is_arp)

\* the ring of four switches s1-s2-s3-s4-s1, the hosts on s1 and s3
Ring4Switches == 1..4
Ring4Links == {<<1, 2>>, <<2, 3>>, <<3, 4>>, <<4, 1>>}

\* the ring is registered with the topology service and its last event is
\* queued; the controller has built nothing yet
InitRing4 ==
    /\ B2Init /\ BFInit /\ JFInit /\ RingInit /\ BBInit /\ MUInit /\ JRInit /\ MFInit
    /\ link_down = {}
    /\ wiring = Ring4Links
    /\ lldp_in_flight = {}
    /\ bcast_in_flight = {}
    /\ bcast_handled = [d \in Switches |-> 0]
    /\ variant = "stable"
    /\ ryu_switches = Ring4Switches
    /\ ryu_links = Ring4Links
    /\ topo_event_pending = TRUE
    /\ datapaths = {}
    /\ switch_count = 0
    /\ net = EmptyNet
    /\ port_map = <<>>
    /\ mst = NoMst
    /\ all_paths = NoPaths
    /\ stable_counter = 0
    /\ last_topology_hash = NoHash
    /\ topology_ready = FALSE
    /\ computation_in_progress = FALSE
    /\ pc = "sleep"
    /\ mon_switches = {}
    /\ fresh_obs = 0
    /\ obs_since_dead = 3

\* the ring settles and carries frames
Ring4Next ==
    \/ RingTopologyEventHandler
    \/ \E r \in Runs : RingBuildStart(r)
    \/ \E r \in Runs : RingGetSwitch(r)
    \/ \E r \in Runs : RingBuild(r)
    \/ \E d \in Ring4Switches, port \in 1..4, src, dst \in Macs,
          is_arp \in BOOLEAN :
          RingPacketIn(d, port, src, dst, is_arp)

----------------------------------------------------------------------------
(* JohnsonRingController, controller_johnson_ring.py: _build_optimal_topology *)
(* as a function of what the topology service replies.  networkx keeps nodes  *)
(* and successors in dicts, so its results follow the order in which the      *)
(* replies list the switches and the links.                                   *)

\* the sequences of distinct elements of S
Orderings(S) ==
    {q \in UNION {[1..k -> S] : k \in 0..Cardinality(S)} :
        \A i, j \in DOMAIN q : i # j => q[i] # q[j]}

AppendNew(q, x) == IF x \in Range(q) THEN q ELSE Append(q, x)

Position(q, x) == CHOOSE i \in DOMAIN q : q[i] = x

RECURSIVE NodeOrder(_, _)
\* the nodes of temp_net in the order add_node and add_edge created them
NodeOrder(order, links) ==
    IF links = <<>> THEN order
    ELSE NodeOrder(AppendNew(AppendNew(order, links[1][1]), links[1][2]),
                   Tail(links))

RECURSIVE AdjOrder(_, _)
\* the successors of every node of temp_net in the order add_edge(src, dst)
\* and add_edge(dst, src) created them
AdjOrder(adj, links) ==
    IF links = <<>> THEN adj
    ELSE LET src == links[1][1]
             dst == links[1][2]
             a1 == [adj EXCEPT ![src] = AppendNew(@, dst)]
             a2 == [a1 EXCEPT ![dst] = AppendNew(@, src)]
         IN  AdjOrder(a2, Tail(links))

\* temp_net after the two loops of _build_optimal_topology
OrderedNet(switches, links) ==
    LET order == NodeOrder(switches, links)
        adj == AdjOrder([n \in Range(order) |-> <<>>], links)
    IN  [order |-> order,
         adj   |-> adj,
         port  |-> [e \in {<<n, w>> \in Range(order) \X Range(order) :
                              w \in Range(adj[n])} |-> PortTo(e[1], e[2])]]

\* temp_port_map after the two loops: only switches of the reply have a map
OrderedPortMap(switches, links) ==
    [d \in Range(switches) |->
        LET nbrs == {w \in Endpoints(Range(links)) :
                        <<d, w>> \in Range(links) \/ <<w, d>> \in Range(links)}
        IN  [p \in {PortTo(d, w) : w \in nbrs} |->
                CHOOSE w \in nbrs : PortTo(d, w) = p]]

RECURSIVE UndirectedEdges(_, _)
\* the edges of self.net.to_undirected() in the order G.edges lists them:
\* node by node from node i on, each with its successors not listed before
UndirectedEdges(n, i) ==
    IF i > Len(n.order) THEN <<>>
    ELSE LET u == n.order[i]
             later(v) == Position(n.order, v) > i
             nbrs == SelectSeq(n.adj[u], later)
         IN  [k \in 1..Len(nbrs) |-> {u, nbrs[k]}] \o UndirectedEdges(n, i + 1)

RECURSIVE Kruskal(_, _)
\* nx.minimum_spanning_tree on equal weights: the stable sort keeps the edge
\* order, and an edge joins the tree unless its ends are joined already
Kruskal(edges, T) ==
    IF edges = <<>> THEN T
    ELSE LET e == Head(edges)
             a == CHOOSE x \in e : TRUE
             b == CHOOSE y \in e : y # a
         IN  Kruskal(Tail(edges),
                     IF b \in ReachSet(T, {a}) THEN T ELSE T \cup {e})

\* a spanning tree computation that avoids the tree it finds in self.mst
SpanningTreeAwayFromOld(edges) ==
    LET reversed == [k \in 1..Len(edges) |-> edges[Len(edges) + 1 - k]]
    IN  IF jr_mst.present /\ jr_mst.edges = Kruskal(edges, {})
        THEN Kruskal(reversed, {})
        ELSE Kruskal(edges, {})

\* the edges of nx.minimum_spanning_tree(undirected)
MinimumSpanningTree(edges) == Kruskal(edges, {})

RECURSIVE Dijkstra(_, _, _)
\* _dijkstra on equal weights: nodes leave the heap in the order they
\* entered it, and the path of a node is fixed when the node is first seen
Dijkstra(adj, fringe, paths) ==
    IF fringe = <<>> THEN paths
    ELSE LET v == Head(fringe)
             unseen(u) == u \notin DOMAIN paths
             new == SelectSeq(adj[v], unseen)
         IN  Dijkstra(adj, Tail(fringe) \o new,
                      [u \in DOMAIN paths \cup Range(new) |->
                          IF u \in DOMAIN paths THEN paths[u]
                          ELSE Append(paths[v], u)])

\* nx.johnson(self.net, weight='weight') on equal weights: one _dijkstra per
\* source; all_paths[s][d] is written f[<<s, d>>]
JohnsonOrdered(n) ==
    LET from(s) == Dijkstra(n.adj, <<s>>, [x \in {s} |-> <<s>>])
    IN  [sd \in {x \in Range(n.order) \X Range(n.order) :
                    x[2] \in DOMAIN from(x[1])} |-> from(sd[1])[sd[2]]]

\* the topology service has some switches of the ring of four registered
\* and some of its links discovered, and lists them in some order; the
\* controller has built nothing yet
InitRecompute ==
    /\ JInit /\ B2Init /\ BFInit /\ JFInit /\ RingInit /\ BBInit /\ MUInit
    /\ MFInit /\ PhysInit
    /\ variant = "stable"
    /\ jr_switches \in Orderings(Ring4Switches)
    /\ jr_links \in Orderings(Ring4Links)
    /\ johnson_rejects_unweighted \in BOOLEAN
    /\ jr_net = EmptyOrderedNet
    /\ jr_port_map = <<>>
    /\ jr_mst = NoMst
    /\ jr_all_paths = NoPaths

\* _build_optimal_topology from the replies of the topology service to its
\* end
JRBuildOptimalTopology ==
    LET temp_net == OrderedNet(jr_switches, jr_links)
        nodes == Range(temp_net.order)
        undirected == UndirectedEdges(temp_net, 1)
    IN  /\ jr_net' = temp_net
        /\ jr_port_map' = OrderedPortMap(jr_switches, jr_links)
        /\ jr_mst' = IF nodes = {} THEN jr_mst
                     ELSE IF IsConnected(nodes, Range(undirected))
                     THEN Tree(nodes, MinimumSpanningTree(undirected))
                     ELSE NoMst
        /\ jr_all_paths' =
              IF nodes = {} THEN NoPaths
              ELSE IF johnson_rejects_unweighted /\ undirected = <<>>
              THEN NoPaths
              ELSE JohnsonOrdered(temp_net)
        /\ Silent
        /\ UNCHANGED <<jvars, b2vars, bfvars, jfvars, ringvars, bbvars, muvars,
                       mfvars, physvars, bcastvars, jr_switches, jr_links,
                       johnson_rejects_unweighted>>

RecomputeNext == JRBuildOptimalTopology


(***************************************************************************)
(* BellmanFordController of controller_bellman.py: no topology state, the  *)
(* graph is built from get_switch and get_link inside _packet_in_handler.  *)
(***************************************************************************)

\* a packet-out on OFPP_FLOOD: the switch sends on every port but in_port;
\* rule tells whether add_flow was called with the same actions
OfppFlood(d, in_port, rule) ==
    [kind |-> "flood", dpid |-> d, in_port |-> in_port,
     ports |-> LocalPorts(d) \ {in_port}, rule |-> rule]

\* the handler's own on-demand graph, from the switch and link lists
OnDemandNet == TempNet(ryu_switches, ryu_links)

\* the results of the try block of _packet_in_handler for a frame to a host
\* on another switch: "raise" where NodeNotFound leaves the handler,
\* "except" where NetworkXNoPath is caught, otherwise "path" and out_port
BBRouteResults(dpid, dst_dpid) ==
    LET g == OnDemandNet
    IN  IF dpid \notin g.nodes THEN {[tag |-> "raise", port |-> 0]}
        ELSE IF \/ dst_dpid \notin g.nodes
                \/ PathsBetween(g.nodes, Edges(g), dpid, dst_dpid) = {}
        THEN {[tag |-> "except", port |-> 0]}
        ELSE {[tag |-> "path", port |-> g.port[<<dpid, path[2]>>]] :
                 path \in ShortestPaths(g.nodes, Edges(g), dpid, dst_dpid)}

\* what _packet_in_handler sends for a frame to dst, hosts being self.hosts
\* after the source was learned and r the result of the route lookup
BBDecision(dpid, in_port, dst, is_arp, hosts, r) ==
    IF is_arp \/ dst \notin DOMAIN hosts THEN OfppFlood(dpid, in_port, FALSE)
    ELSE IF dpid = hosts[dst][1] THEN Unicast(dpid, in_port, hosts[dst][2])
    ELSE IF r.tag = "raise" THEN NoOut
    ELSE IF r.tag = "except" THEN OfppFlood(dpid, in_port, TRUE)
    ELSE Unicast(dpid, in_port, r.port)

\* _packet_in_handler for a frame that is not LLDP
BBPacketIn(dpid, in_port, src, dst, is_arp) ==
    /\ dpid \in ryu_switches
    /\ src # dst
    /\ FrameCanArrive(bb_hosts, dpid, in_port, src)
    /\ bb_hosts' = Learn(bb_hosts, src, dpid, in_port)
    /\ IF is_arp \/ dst \notin DOMAIN bb_hosts' \/ bb_hosts'[dst][1] = dpid
       THEN bb_out' = BBDecision(dpid, in_port, dst, is_arp, bb_hosts',
                                  [tag |-> "except", port |-> 0])
       ELSE \E r \in BBRouteResults(dpid, bb_hosts'[dst][1]) :
               bb_out' = BBDecision(dpid, in_port, dst, is_arp, bb_hosts', r)
    /\ j_out' = NoOut
    /\ ring_out' = NoOut
    /\ b2_out' = NoOut
    /\ mu_out' = NoOut
    /\ mu_frame' = NoFrame
    /\ mf_out' = NoOut
    /\ UNCHANGED <<notBB, jvars>>

BBNext ==
    \/ \E d \in Switches : RyuSwitchEnter(d)
    \/ \E d \in Switches : RyuSwitchLeave(d)
    \/ \E l \in BellmanLinks : RyuLinkAdd(l)
    \/ \E l \in BellmanLinks : RyuLinkDelete(l)
    \/ \E d \in Switches, port \in 1..4, src, dst \in Macs, is_arp \in BOOLEAN :
          BBPacketIn(d, port, src, dst, is_arp)


(***************************************************************************)
(* JohnsonMeshUltraController of controller_johnson_mesh_ultra.py: the     *)
(* topology is computed once, when get_link returns TARGET_LINKS links,    *)
(* and frozen; the switches send ARP frames to the controller and drop     *)
(* what no rule matches, so every packet-in that is not LLDP is ARP.       *)
(***************************************************************************)

\* TARGET_LINKS: the directed links of the full mesh (2450 for 50 switches)
TargetLinks == Cardinality(Switches) * (Cardinality(Switches) - 1)

IpOf(m) == IF m = "h1" THEN "10.0.0.1" ELSE "10.0.0.2"
ArpOps == {"request", "reply"}

\* d[k] = v on a dict
Put(d, k, v) == [x \in DOMAIN d \cup {k} |-> IF x = k THEN v ELSE d[x]]

\* a monitor loop that keeps scanning after the lock
MUGetSwitchAfterLock ==
    /\ mu_pc = "sleep"
    /\ mu_switches' = ryu_switches
    /\ mu_pc' = "get_link"
    /\ Silent
    /\ UNCHANGED <<notMU, jvars, mu_hosts, mu_arp_table, mu_net, mu_port_map,
                   mu_mst, mu_all_paths, mu_last_topo_stats, mu_is_ready,
                   mu_topology_frozen>>

\* _monitor_topology: the reply of get_switch
MUGetSwitch ==
    /\ mu_pc = "sleep"
    /\ ~mu_topology_frozen
    /\ mu_switches' = ryu_switches
    /\ mu_pc' = "get_link"
    /\ Silent
    /\ UNCHANGED <<notMU, jvars, mu_hosts, mu_arp_table, mu_net, mu_port_map,
                   mu_mst, mu_all_paths, mu_last_topo_stats, mu_is_ready,
                   mu_topology_frozen>>

\* _monitor_topology from the reply of get_link to hub.sleep(10.0), with
\* _calculate_logic when the target is reached
MUScan ==
    /\ mu_pc = "get_link"
    /\ mu_pc' = "sleep"
    /\ mu_switches' = {}
    /\ LET lnk_count == 2 * Cardinality(ryu_links)
           temp_net == TempNet(mu_switches, ryu_links)
           undirected == Und(Edges(temp_net))
       IN  /\ mu_last_topo_stats' = <<Cardinality(mu_switches), lnk_count>>
           /\ IF lnk_count >= TargetLinks
              THEN /\ IF temp_net.nodes = {}
                      THEN UNCHANGED <<mu_net, mu_port_map, mu_mst, mu_all_paths>>
                      ELSE /\ mu_net' = temp_net
                           /\ mu_port_map' = TempPortMap(mu_switches, ryu_links)
                           /\ IF IsConnected(temp_net.nodes, undirected)
                              THEN \E t \in SpanningTrees(temp_net.nodes, undirected) :
                                      mu_mst' = Tree(temp_net.nodes, t)
                              ELSE mu_mst' = NoMst
                           /\ mu_all_paths' \in
                                 JohnsonResults(temp_net.nodes, Edges(temp_net))
                   /\ mu_topology_frozen' = TRUE
                   /\ mu_is_ready' = TRUE
              ELSE UNCHANGED <<mu_net, mu_port_map, mu_mst, mu_all_paths,
                               mu_topology_frozen, mu_is_ready>>
    /\ Silent
    /\ UNCHANGED <<notMU, jvars, mu_hosts, mu_arp_table>>

\* _monitor_topology leaves its loop once the topology is frozen
MUStop ==
    /\ mu_pc = "sleep"
    /\ mu_topology_frozen
    /\ mu_pc' = "done"
    /\ Silent
    /\ UNCHANGED <<notMU, jvars, mu_hosts, mu_arp_table, mu_net, mu_port_map,
                   mu_mst, mu_all_paths, mu_last_topo_stats, mu_is_ready,
                   mu_topology_frozen, mu_switches>>

\* _intelligent_flood: the ports of the packet-out it sends
MUFlood(d, in_port) ==
    IF ~mu_mst.present THEN {}
    ELSE {port_no \in LocalPorts(d) :
             /\ port_no # in_port
             /\ LET neighbor == Neighbor(mu_port_map, d, port_no)
                IN  neighbor # 0 => {d, neighbor} \in mu_mst.edges}

\* a proxy that hands the request on instead of answering it
ArpRequestFlooded(d, in_port) == Flooded(d, in_port, MUFlood(d, in_port))

\* _send_arp_reply: the proxy's answer, sent back on the ingress port
ArpReply(d, in_port) ==
    [kind |-> "arp_reply", dpid |-> d, in_port |-> in_port, ports |-> {in_port},
     rule |-> FALSE]

\* what _packet_in_handler sends after _handle_arp returned False; eth.dst
\* is the broadcast address for a request and dst for a reply
MUDecision(dpid, in_port, dst, op, hosts) ==
    LET flood == Flooded(dpid, in_port, MUFlood(dpid, in_port))
    IN  IF op = "request" \/ dst \notin DOMAIN hosts THEN flood
        ELSE LET dst_dpid == hosts[dst][1]
             IN  IF dpid = dst_dpid THEN Unicast(dpid, in_port, hosts[dst][2])
                 ELSE IF <<dpid, dst_dpid>> \notin DOMAIN mu_all_paths THEN flood
                 ELSE LET path == mu_all_paths[<<dpid, dst_dpid>>]
                      IN  IF Len(path) < 2 THEN flood
                          ELSE IF <<dpid, path[2]>> \notin Edges(mu_net) THEN flood
                          ELSE Unicast(dpid, in_port,
                                       mu_net.port[<<dpid, path[2]>>])

\* where an ARP frame of host src can come in: from the host itself, or on
\* the far end of a link that the step just taken sent this frame out on
MUFrameCanArrive(dpid, in_port, src, dst, op) ==
    \/ dpid = HostSwitch(src) /\ in_port \in HostPorts
    \/ /\ mu_frame = <<src, dst, op>>
       /\ mu_out.kind \in {"flood", "unicast"}
       /\ Wired(mu_out.dpid, dpid)
       /\ PortTo(mu_out.dpid, dpid) \in mu_out.ports
       /\ in_port = PortTo(dpid, mu_out.dpid)

\* _packet_in_handler for an ARP frame of host src that asks for, or
\* answers, host dst; _handle_arp is the first thing it does
MUPacketIn(dpid, in_port, src, dst, op) ==
    /\ dpid \in ryu_switches
    /\ src # dst
    /\ MUFrameCanArrive(dpid, in_port, src, dst, op)
    /\ IF ~mu_is_ready
       THEN /\ UNCHANGED <<mu_hosts, mu_arp_table>>
            /\ mu_out' = NoOut
            /\ mu_frame' = NoFrame
       ELSE /\ mu_arp_table' = Put(mu_arp_table, IpOf(src), src)
            /\ mu_hosts' = Put(mu_hosts, src, <<dpid, in_port>>)
            /\ mu_frame' = <<src, dst, op>>
            /\ mu_out' = IF op = "request" /\ IpOf(dst) \in DOMAIN mu_arp_table'
                         THEN ArpReply(dpid, in_port)
                         ELSE MUDecision(dpid, in_port, dst, op, mu_hosts')
    /\ j_out' = NoOut
    /\ ring_out' = NoOut
    /\ b2_out' = NoOut
    /\ bb_out' = NoOut
    /\ mf_out' = NoOut
    /\ UNCHANGED <<notMU, jvars, mu_net, mu_port_map, mu_mst, mu_all_paths,
                   mu_last_topo_stats, mu_is_ready, mu_topology_frozen, mu_pc,
                   mu_switches>>

MUNext ==
    \/ \E d \in Switches : RyuSwitchEnter(d)
    \/ \E d \in Switches : RyuSwitchLeave(d)
    \/ \E l \in BellmanLinks : RyuLinkAdd(l)
    \/ \E l \in BellmanLinks : RyuLinkDelete(l)
    \/ MUGetSwitch
    \/ MUScan
    \/ MUStop
    \/ \E d \in Switches, port \in 1..4, src, dst \in Macs, op \in ArpOps :
          MUPacketIn(d, port, src, dst, op)

----------------------------------------------------------------------------
(* JohnsonMeshController, controller_johnson_mesh_final.py *)

\* _build_optimal_topology: the reply of get_switch
MFGetSwitch ==
    /\ mf_pc = "sleep"
    /\ mf_switches' = ryu_switches
    /\ mf_pc' = "get_link"
    /\ Silent
    /\ UNCHANGED <<notMF, jvars, mf_hosts, mf_net, mf_port_map, mf_mst,
                   mf_all_paths>>

\* _build_optimal_topology from the reply of get_link up to the first
\* tpool.execute, or to its end on a graph without nodes
MFBuild ==
    /\ mf_pc = "get_link"
    /\ mf_switches' = {}
    /\ mf_net' = TempNet(mf_switches, ryu_links)
    /\ mf_port_map' = TempPortMap(mf_switches, ryu_links)
    /\ IF mf_net'.nodes = {}
       THEN /\ mf_all_paths' = NoPaths
            /\ mf_mst' = mf_mst
            /\ mf_pc' = "sleep"
       ELSE IF IsConnected(mf_net'.nodes, Und(Edges(mf_net')))
       THEN /\ mf_pc' = "mst"
            /\ UNCHANGED <<mf_mst, mf_all_paths>>
       ELSE /\ mf_mst' = NoMst
            /\ mf_pc' = "johnson"
            /\ mf_all_paths' = mf_all_paths
    /\ Silent
    /\ UNCHANGED <<notMF, jvars, mf_hosts>>

\* tpool.execute(nx.minimum_spanning_tree, undirected) returns; nx.johnson is
\* handed to the thread pool
MFMstDone ==
    /\ mf_pc = "mst"
    /\ \E t \in SpanningTrees(mf_net.nodes, Und(Edges(mf_net))) :
          mf_mst' = Tree(mf_net.nodes, t)
    /\ mf_pc' = "johnson"
    /\ Silent
    /\ UNCHANGED <<notMF, jvars, mf_hosts, mf_net, mf_port_map, mf_all_paths,
                   mf_switches>>

\* tpool.execute(nx.johnson, self.net, weight='weight') returns, or raises
\* on a graph without edges (older networkx releases): all_paths = {}
MFJohnsonDone ==
    /\ mf_pc = "johnson"
    /\ \/ \E f \in JohnsonResults(mf_net.nodes, Edges(mf_net)) :
             mf_all_paths' = f
       \/ Edges(mf_net) = {} /\ mf_all_paths' = NoPaths
    /\ mf_pc' = "sleep"
    /\ Silent
    /\ UNCHANGED <<notMF, jvars, mf_hosts, mf_net, mf_port_map, mf_mst,
                   mf_switches>>

\* _intelligent_flood: the ports of the packet-out it sends, none when
\* self.mst is None
MFIntelligentFlood(d, in_port) ==
    IF ~mf_mst.present THEN {}
    ELSE {p \in LocalPorts(d) \ {in_port} :
            LET neighbor_dpid == Neighbor(mf_port_map, d, p)
            IN  neighbor_dpid # 0 => {d, neighbor_dpid} \in mf_mst.edges}

\* the handler returns without a message
Dropped(d, in_port) ==
    [kind |-> "drop", dpid |-> d, in_port |-> in_port, ports |-> {},
     rule |-> FALSE]

\* the handler ends in an exception that nothing catches
Raised(d, in_port) ==
    [kind |-> "raise", dpid |-> d, in_port |-> in_port, ports |-> {},
     rule |-> FALSE]

\* _packet_in_handler after the host table: what it sends for a frame to dst
MFDecision(dpid, in_port, dst, is_arp, hosts) ==
    IF is_arp \/ dst \notin DOMAIN hosts
    THEN Flooded(dpid, in_port, MFIntelligentFlood(dpid, in_port))
    ELSE LET dst_dpid == hosts[dst][1]
         IN  IF dpid = dst_dpid THEN Unicast(dpid, in_port, hosts[dst][2])
             ELSE IF mf_all_paths # NoPaths
                     /\ <<dpid, dst_dpid>> \in DOMAIN mf_all_paths
             THEN LET path == mf_all_paths[<<dpid, dst_dpid>>]
                      next_hop == path[2]
                  IN  IF <<dpid, next_hop>> \in Edges(mf_net)
                      THEN Unicast(dpid, in_port,
                                   mf_net.port[<<dpid, next_hop>>])
                      ELSE Raised(dpid, in_port)
             ELSE Dropped(dpid, in_port)

\* _packet_in_handler for a frame that is not LLDP, as its host sends it
\* (the copies that another switch hands on are left out)
MFPacketIn(dpid, in_port, src, dst, is_arp) ==
    /\ dpid \in ryu_switches
    /\ src # dst
    /\ dpid = HostSwitch(src) /\ in_port \in HostPorts
    /\ mf_hosts' = Learn(mf_hosts, src, dpid, in_port)
    /\ mf_out' = MFDecision(dpid, in_port, dst, is_arp, mf_hosts')
    /\ j_out' = NoOut
    /\ ring_out' = NoOut
    /\ b2_out' = NoOut
    /\ bb_out' = NoOut
    /\ mu_out' = NoOut
    /\ mu_frame' = NoFrame
    /\ UNCHANGED <<notMF, jvars, mf_net, mf_port_map, mf_mst, mf_all_paths,
                   mf_pc, mf_switches>>

\* the mesh comes up under the controller
MFNext ==
    \/ \E d \in Switches : RyuSwitchEnter(d)
    \/ \E l \in BellmanLinks : RyuLinkAdd(l)
    \/ MFGetSwitch
    \/ MFBuild
    \/ MFMstDone
    \/ MFJohnsonDone
    \/ \E d \in Switches, port \in HostPorts, src, dst \in Macs,
          is_arp \in BOOLEAN :
          MFPacketIn(d, port, src, dst, is_arp)

----------------------------------------------------------------------------
Init ==
    /\ JInit /\ B2Init /\ BFInit /\ JFInit /\ RingInit /\ BBInit /\ MUInit
    /\ JRInit /\ MFInit /\ PhysInit

\* the Bellman-Ford controllers have one source file each
InitBellman == Init /\ variant = "v2"

SpecJohnson == Init /\ [][JNext]_vars

SpecBellmanV2 == InitBellman /\ [][B2Next]_vars

SpecFixed == InitBellman /\ [][BFNext]_vars

SpecFixedDiscovery == InitBellman /\ [][BFDiscoveryNext]_vars

SpecFixedLinkDown ==
    InitBellman /\ [][BFLinkDownNext]_vars /\ BFLinkDownFairness

SpecJohnsonFrames == JFramesInit /\ [][JFramesNext]_vars

InitRing == Init /\ variant = "stable"

SpecBellmanBasic == InitRing /\ [][BBNext]_vars

SpecMeshUltra == InitRing /\ [][MUNext]_vars

SpecRing == InitRing /\ [][RingNext]_vars

SpecRing4 == InitRing4 /\ [][Ring4Next]_vars

SpecRecompute == InitRecompute /\ [][RecomputeNext]_vars

SpecRingEvents == InitRing /\ [][RingEventsNext]_vars

SpecJohnsonSettles ==
    SettleInit /\ [][SettleNext]_vars /\ SettleFairness

SpecJohnsonFlood == FloodInit /\ [][FloodNext]_vars

SpecMeshFinal == InitRing /\ [][MFNext]_vars

----------------------------------------------------------------------------
(* Properties of JohnsonFatTreeController *)

Connected(n) == IsConnected(n.nodes, Und(Edges(n)))

\* C1: a route computation is started, and topology_ready is raised, only by
\* a monitor cycle whose observation equalled the one before it and brought
\* stable_counter to 3 or more; topology_ready is raised nowhere else than in
\* such a cycle (at its start when there is nothing to compute, or when its
\* computation returns).
C1_ComputeOnlyWhenStable ==
    [][ /\ (pc' \in Computing /\ pc \notin Computing) => pc = "get_link"
        /\ (~topology_ready /\ topology_ready') => pc \in {"get_link", "johnson"}
        /\ (pc = "get_link" /\ (pc' \in Computing \/ (~topology_ready /\ topology_ready')))
              => /\ stable_counter' >= 3
                 /\ stable_counter' = stable_counter + 1
                 /\ last_topology_hash' = last_topology_hash ]_vars

\* a computation that was started at the threshold has set topology_ready
C1_Witness ==
    topology_ready /\ stable_counter = 3 /\ all_paths # NoPaths /\ mst.present

\* C2: from a fresh start, three monitor cycles that observe the same
\* connected topology of at least 2 switches, with no topology event in
\* between, leave topology_ready True.
C2_ThreeObservationsSettle == fresh_obs = 3 => topology_ready

\* C3: a monitor cycle whose snapshot hash differs from the hash observed
\* before ends with stable_counter = 0 and topology_ready = False.
C3_HashChangeResetsGate ==
    [][ (pc = "get_link" /\ pc' # "crashed"
            /\ GetTopologyHash(net') # last_topology_hash)
          => (stable_counter' = 0 /\ ~topology_ready') ]_vars

\* routes were computed once, and a later cycle that observed another graph
\* has left the gate reset
C3_Witness ==
    /\ all_paths # NoPaths
    /\ {sd[1] : sd \in DOMAIN all_paths} # net.nodes
    /\ stable_counter = 0 /\ ~topology_ready /\ pc = "sleep"
    /\ ~topo_event_pending

\* C4: the disconnect of a tracked switch sets stable_counter = 0 and
\* topology_ready = False at once, and topology_ready stays False until 3
\* further consecutive equal observations have been made.
C4_DisconnectResetsGate ==
    [][ /\ (datapaths' # datapaths /\ datapaths' \subseteq datapaths)
              => (stable_counter' = 0 /\ ~topology_ready')
        /\ obs_since_dead' < 3 => ~topology_ready' ]_vars

\* C5: topology_ready is never True while stable_counter < 3 (the result of
\* a computation that a topology event or disconnect superseded is dropped).
C5_SupersededDiscarded == topology_ready => stable_counter >= 3

\* C8: after a recomputation on a disconnected snapshot the Route Table is
\* empty and the Spanning Structure absent.  (Stated for snapshots that hold
\* at least one link, where every networkx release returns routes.)
C8_DisconnectedEmptiesRoutes ==
    [][ (pc \in Computing /\ pc' = "sleep" /\ ~Connected(net) /\ Edges(net) # {})
          => (all_paths' = NoPaths /\ ~mst'.present) ]_vars

----------------------------------------------------------------------------
(* Properties of BellmanFatTreeController, controller_bellman_fattree_v2.py *)

\* C6: whenever the Spanning Structure is present it contains no cycle and
\* is a spanning tree of the switches it was computed for
\* (|edges| = |switches| - 1).
C6_MstIsSpanningTree ==
    b2_mst.present =>
        /\ IsAcyclic(b2_mst.nodes, b2_mst.edges)
        /\ Cardinality(b2_mst.edges) = Cardinality(b2_mst.nodes) - 1

\* C7: after a recomputation that observes a disconnected switch graph the
\* Spanning Structure is absent (self.mst is None).
C7_DisconnectedClearsMst ==
    [][ (last_hash' # last_hash /\ Keys(topology) # {}
            /\ ~IsConnected(B2Graph(topology).nodes, B2Graph(topology).edges))
          => ~b2_mst'.present ]_vars

\* p runs over links of topology t only
RunsOver(p, t) ==
    \A i \in 1..(Len(p) - 1) : <<p[i], p[i + 1]>> \in TopoPairs(t)

\* C10: once the topology updater has processed a topology change, no route
\* of an earlier topology is left for _get_path to return: every cached
\* path runs over links of the topology the updater processed.
C10_NoStaleRoute ==
    last_hash = B2TopoHash(topology) =>
        \A k \in DOMAIN b2_path_cache : RunsOver(b2_path_cache[k], topology)

----------------------------------------------------------------------------
(* Properties of BellmanFatTreeController, controller_bellman_fattree_fixed.py *)

\* the next hops a connected switch u can send a frame for a host on switch
\* d to: path[1] of what _get_path(u, d) returns, when self.net has the
\* link to it
NextHops(u, d) ==
    {p[2] : p \in {q \in BFGetPathResults(u, d) :
                      Len(q) >= 2 /\ <<u, q[2]>> \in Edges(bf_net)}}

RECURSIVE NoRevisit(_, _, _)
\* following the next hops from u towards d never comes back to a switch
\* of `visited`
NoRevisit(u, d, visited) ==
    \/ u = d
    \/ u \notin bf_datapaths
    \/ \A v \in NextHops(u, d) :
          v \notin visited /\ NoRevisit(v, d, visited \cup {v})

\* C9: for every pair (src, dst) with a cached path, starting at src and
\* repeatedly taking the next hop that the switch reached so far would
\* choose for dst never visits a switch twice.
C9_NextHopsLoopFree ==
    \A sd \in DOMAIN bf_path_cache : NoRevisit(sd[1], sd[2], {sd[1]})

----------------------------------------------------------------------------
(* Properties of frame handling *)

\* the flood port set of the specification: every local port of d but the
\* ingress port that pm does not map to a neighbour switch, or whose link
\* is an edge of tree
FloodPortsSpec(pm, tree, d, in_port) ==
    {p \in LocalPorts(d) \ {in_port} :
        \/ Neighbor(pm, d, p) = 0
        \/ {d, Neighbor(pm, d, p)} \in tree.edges}

\* C11: when the Spanning Structure is present, the port set that
\* _intelligent_flood of the ring controller emits for a frame at switch d
\* with ingress port i is exactly the local ports p # i that port_map[d]
\* does not map to a neighbour switch or whose link is in the Spanning
\* Structure.
C11_RingFloodPortSet ==
    (ring_out.kind = "flood" /\ ring_mst.present)
        => ring_out.ports = FloodPortsSpec(ring_port_map, ring_mst,
                                           ring_out.dpid, ring_out.in_port)

\* C12: the ports of a flooded frame never include the port the frame came
\* in on, also when it came in on a switch-to-switch port of the spanning
\* structure
C12_FloodNeverOnIngress ==
    b2_out.kind = "flood" => b2_out.in_port \notin b2_out.ports

\* the ports of switch d that are wired to another switch
SwitchPorts(d) == {PortTo(d, w) : w \in {x \in Endpoints(wiring) : Wired(d, x)}}

\* C13: while there is no spanning structure (self.mst is None or the
\* topology is not ready) a flooded frame goes out on no port that is wired
\* to another switch, whatever link discovery has recorded so far
C13_NoSwitchPortWithoutTree ==
    (b2_out.kind = "flood" /\ ~(b2_topology_ready /\ b2_mst.present))
        => b2_out.ports \cap SwitchPorts(b2_out.dpid) = {}

\* C14: a frame that is flooded (ARP, unknown destination, or no route
\* found) comes with no forwarding rule; add_flow goes only with a unicast
\* output
C14_FloodInstallsNoRule ==
    bb_out.kind = "flood" => ~bb_out.rule

\* C15: host learning is first-writer-wins: an address that has an entry in
\* self.hosts keeps that entry, whatever frame or ARP packet with that
\* source is seen later at another switch or port
C15_FirstWriterWins ==
    [][\A a \in DOMAIN mu_hosts :
          a \in DOMAIN mu_hosts' /\ mu_hosts'[a] = mu_hosts[a]]_vars

C17_DisconnectForgetsHosts ==
    [][\A d \in Switches :
          (d \in bf_datapaths /\ d \notin bf_datapaths')
              => \A a \in DOMAIN bf_hosts' : bf_hosts'[a][1] # d]_vars

\* link l is in neither direction in self.net
LinkGone(l) ==
    <<l[1], l[2]>> \notin Edges(bf_net) /\ <<l[2], l[1]>> \notin Edges(bf_net)

\* no switch would choose link l as the first hop towards any switch
AvoidsLink(l) ==
    \A u, d \in Switches : \A v \in NextHops(u, d) : {u, v} # {l[1], l[2]}

\* C18: once a switch-to-switch link is down, with the fabric still
\* connected, the controller eventually has the link out of its graph and
\* forwards along paths that avoid it, also while frames keep arriving
C18_LinkDownEventuallyRerouted ==
    \A l \in BellmanLinks :
        (l \in link_down) ~> (LinkGone(l) /\ AvoidsLink(l))

\* the step in which the except branch of the route computation runs
ComputationRaised ==
    pc \in Computing /\ pc' = "sleep" /\ ~topology_ready'

\* C19: when the route computation raises, all_paths and mst keep the
\* values they had when that computation started (mst is first assigned
\* when the spanning tree call returns, all_paths when nx.johnson returns)
C19_FailureKeepsLastGood ==
    [][ComputationRaised
          => /\ all_paths' = all_paths
             /\ (pc = "mst" => mst' = mst)]_vars

\* tree t is a result for graph n: it spans n over links of n
TreeOf(n, t) == t.nodes = n.nodes /\ t.edges \subseteq Und(Edges(n))

\* route table f is a result for graph n: every route runs between nodes of
\* n over links of n
RoutesOf(n, f) ==
    \A k \in DOMAIN f :
        \A i \in 1..Len(f[k]) :
            /\ f[k][i] \in n.nodes
            /\ i < Len(f[k]) => <<f[k][i], f[k][i + 1]>> \in Edges(n)

\* C20: whenever a frame can be handled, what the handler consults belongs
\* to one completed snapshot: the tree that _intelligent_flood reads is a
\* result for the graph whose port map it reads, and the routes that
\* _packet_in_handler reads once topology_ready is set are results for the
\* graph it takes the out port from
C20_OneSnapshot ==
    datapaths # {}
        => /\ mst.present => TreeOf(net, mst)
           /\ topology_ready => RoutesOf(net, all_paths)
           /\ \A d \in DOMAIN port_map : \A p \in DOMAIN port_map[d] :
                 <<d, port_map[d][p]>> \in Edges(net)

\* C21: in no reachable state does _packet_in_handler end with an uncaught
\* exception: every frame a connected switch can hand in ends in a unicast
\* emit, a flood or a drop
C21_NoUncaughtException ==
    \A dpid \in bf_datapaths, in_port \in 1..4, src \in Macs, dst \in Macs,
       is_arp \in BOOLEAN :
        (src # dst /\ FrameCanArrive(bf_hosts, dpid, in_port, src))
            => BFOutcomes(dpid, in_port, src, dst, is_arp)
                  \subseteq {"unicast", "flood", "drop"}

\* C22: at most one run of _build_optimal_topology is pending or running
\* at any time: topology events that arrive while a run has been spawned
\* and has not finished start no second run
C22_AtMostOneRun ==
    Cardinality({r \in Runs : ring_pc[r] # "none"}) <= 1

\* the ring of four is settled: self.net holds its four switches and both
\* directions of its four links, and self.mst is a tree
Ring4Settled ==
    /\ ring_net.nodes = Ring4Switches
    /\ Und(Edges(ring_net)) = Und(Ring4Links)
    /\ ring_mst.present

\* C23: on the settled ring of four with h1 (on s1) and h3 (on s3) learned,
\* a unicast frame h1 -> h3 that is not ARP and comes in on the host port of
\* s1 is sent out on exactly one port, the one towards s2 or the one towards
\* s4, with a rule installed and no flood, and the switch on that port
\* forwards the frame on its port to s3
C23_RingOfFourUnicast ==
    [][ ( /\ Ring4Settled
          /\ {"h1", "h2"} \subseteq DOMAIN ring_hosts
          /\ \E p \in HostPorts : RingPacketIn(1, p, "h1", "h2", FALSE) )
        => /\ ring_out'.kind = "unicast"
           /\ ring_out'.rule
           /\ \E w \in {2, 4} :
                 /\ ring_out'.ports = {PortTo(1, w)}
                 /\ RingDecision(w, PortTo(w, 1), "h2", FALSE, ring_hosts)
                       = Unicast(w, PortTo(w, 1), PortTo(w, 3)) ]_vars

\* the frame of C23 has just been forwarded by s1
C23_Witness ==
    /\ Ring4Settled
    /\ {"h1", "h2"} \subseteq DOMAIN ring_hosts
    /\ ring_out.kind = "unicast" /\ ring_out.dpid = 1
    /\ ring_out.in_port \in HostPorts
    /\ ring_out.ports \in {{PortTo(1, 2)}, {PortTo(1, 4)}}

\* some route of the table runs over the link between u and v
UsesHop(f, u, v) ==
    \E k \in DOMAIN f : \E i \in 1..(Len(f[k]) - 1) :
        {f[k][i], f[k][i + 1]} = {u, v}

\* C24: with s1 and s2 registered and connected and the link between them
\* deleted (the delete event handled, so the gate was reset), the step that
\* settles the controller again leaves a Route Table without the hop
\* s1 -> s2 or s2 -> s1
C24_DeletedLinkLeavesRoutes ==
    [][ ( /\ variant = "v2"
          /\ {1, 2} \subseteq ryu_switches /\ {1, 2} \subseteq datapaths
          /\ <<1, 2>> \notin ryu_links
          /\ ~topo_event_pending
          /\ ~topology_ready /\ topology_ready' )
        => ~UsesHop(all_paths', 1, 2) ]_vars

\* C25: the MAIN_DISPATCHER event of a switch that is tracked already
\* changes nothing: the datapath table, the switch count, the topology, the
\* host table, the stability counter and the settled status stay as they
\* were, and the switch count stays the number of tracked switches
C25_DuplicateConnectIgnored ==
    [][ \A d \in Switches :
          (d \in datapaths /\ StateChangeMain(d))
            => /\ UNCHANGED <<datapaths, switch_count, net, port_map, mst,
                              all_paths, j_hosts, stable_counter,
                              last_topology_hash, topology_ready>>
               /\ switch_count' = Cardinality(datapaths') ]_vars

\* the same for BellmanFatTreeController of controller_bellman_fattree_fixed.py
C25_FixedDuplicateConnectIgnored ==
    [][ \A d \in Switches :
          (d \in bf_datapaths /\ BFStateChangeMain(d))
            => UNCHANGED <<bf_datapaths, bf_net, bf_port_map, bf_mst,
                           bf_path_cache, bf_hosts, bf_topology_ready,
                           last_topo_hash>> ]_vars

\* a settled controller with every switch tracked, where a duplicate
\* MAIN_DISPATCHER event has something to disturb
C25_Witness ==
    /\ variant = "v2"
    /\ datapaths = Switches /\ switch_count = Cardinality(Switches)
    /\ topology_ready /\ stable_counter = StabilityThreshold
    /\ all_paths # NoPaths

\* the last run of _build_optimal_topology saw the replies the topology
\* service gives now
SnapshotUnchanged == jr_net = OrderedNet(jr_switches, jr_links)

C27_CacheMissFillsAllDestinations ==
    [][ \A dpid \in Switches, in_port \in 1..4, src \in Macs, dst \in Macs :
          ( /\ BFPacketIn(dpid, in_port, src, dst, FALSE)
            /\ bf_path_cache' # bf_path_cache )
            => \A d \in bf_net.nodes \ {dpid} :
                  PathsBetween(bf_net.nodes, Edges(bf_net), dpid, d) # {}
                     => <<dpid, d>> \in DOMAIN bf_path_cache' ]_vars

\* C28: the graph that the spanning tree and the routes are computed from
\* holds no switch that is not connected and no link to or from one
C28_UnknownEndpointExcluded ==
    /\ bf_net.nodes \subseteq bf_datapaths
    /\ \A e \in Edges(bf_net) : e[1] \in bf_datapaths /\ e[2] \in bf_datapaths

\* C29: an LLDP frame never reaches the forwarding decision: the step that
\* handles it leaves the host table as it was, sends nothing to the switch
\* and installs no rule
C29_LldpNotForwarded ==
    [][ \A d \in Switches, port \in 1..4 :
          JPacketInLldp(d, port)
            => /\ j_hosts' = j_hosts
               /\ j_out'.kind = "none" /\ j_out'.ports = {} /\ ~j_out'.rule ]_vars

\* the same for the LLDP handling of controller_bellman_fattree_v2.py, which
\* records the link
C29_BellmanV2LldpNotForwarded ==
    [][ \A d \in Switches, src \in Switches :
          B2PacketInLldp(d, src)
            => /\ b2_hosts' = b2_hosts
               /\ b2_out'.kind = "none" /\ b2_out'.ports = {} /\ ~b2_out'.rule ]_vars

\* and for controller_bellman_fattree_fixed.py
C29_FixedLldpLeavesHosts ==
    [][ \A d \in Switches, src \in Switches :
          (BFPacketInLldp(d, src) \/ BFLldpArrives(d, src))
            => bf_hosts' = bf_hosts ]_vars

\* an LLDP frame can come in at a switch of a controller that has learned
\* a host and knows routes
C29_Witness ==
    /\ j_hosts # <<>>
    /\ topology_ready
    /\ j_out.kind = "unicast"
    /\ \E d \in datapaths : \E w \in Endpoints(wiring) : Wired(d, w)

\* the route lookup of the Johnson handler for a frame at switch d towards
\* switch dd succeeds: the Route Table has a path of two switches or more
\* for the pair and the current graph has the edge to its second switch
RouteLookupSucceeds(d, dd) ==
    /\ topology_ready
    /\ <<d, dd>> \in DOMAIN all_paths
    /\ Len(all_paths[<<d, dd>>]) >= 2
    /\ <<d, all_paths[<<d, dd>>][2]>> \in Edges(net)

\* C30: a unicast frame for a destination known on another switch whose
\* route lookup succeeds is sent on, and gets a rule on, exactly the port
\* that the current graph stores on the edge from the current switch to
\* path[1], where path is the Route Table entry of the pair and starts at
\* the current switch
C30_UnicastOnRoutePort ==
    [][ \A d \in Switches, port \in 1..4, src \in Macs, dst \in Macs :
          ( /\ JPacketIn(d, port, src, dst, FALSE)
            /\ dst \in DOMAIN j_hosts'
            /\ j_hosts'[dst][1] # d
            /\ RouteLookupSucceeds(d, j_hosts'[dst][1]) )
            => LET path == all_paths[<<d, j_hosts'[dst][1]>>]
               IN  /\ path[1] = d
                   /\ j_out' = [kind |-> "unicast", dpid |-> d, in_port |-> port,
                                ports |-> {net.port[<<d, path[2]>>]},
                                rule |-> TRUE] ]_vars

\* the same for controller_bellman_fattree_v2.py, whose Route Table is the
\* path cache that _get_path fills
C30_BellmanV2UnicastOnRoutePort ==
    [][ \A d \in Switches, port \in 1..4, src \in Macs, dst \in Macs :
          ( /\ B2PacketIn(d, port, src, dst, FALSE)
            /\ dst \in DOMAIN b2_hosts'
            /\ b2_hosts'[dst][1] # d
            /\ <<d, b2_hosts'[dst][1]>> \in DOMAIN b2_path_cache'
            /\ Len(b2_path_cache'[<<d, b2_hosts'[dst][1]>>]) >= 2
            /\ b2_path_cache'[<<d, b2_hosts'[dst][1]>>][2]
                  \in DOMAIN TopoOf(topology, d) )
            => LET path == b2_path_cache'[<<d, b2_hosts'[dst][1]>>]
               IN  /\ path[1] = d
                   /\ b2_out' = [kind |-> "unicast", dpid |-> d, in_port |-> port,
                                 ports |-> {TopoOf(topology, d)[path[2]]},
                                 rule |-> TRUE] ]_vars

\* a frame for a destination on another switch has just been sent on the
\* port of the first hop of its route
C30_Witness ==
    \E dst \in DOMAIN j_hosts :
        /\ j_hosts[dst][1] # j_out.dpid
        /\ j_out.kind = "unicast"
        /\ RouteLookupSucceeds(j_out.dpid, j_hosts[dst][1])
        /\ j_out.ports =
              {net.port[<<j_out.dpid, all_paths[<<j_out.dpid, j_hosts[dst][1]>>][2]>>]}
        /\ j_out.rule

\* C31: once the routes are ready, a monitor cycle that observes the same
\* snapshot again starts no route computation and leaves all_paths, mst
\* and topology_ready as they are
C31_SettlesExactlyOnce ==
    [][ ( /\ BuildTopology
          /\ topology_ready
          /\ ~BuildRaisesKeyError(mon_switches, ryu_links)
          /\ GetTopologyHash(TempNet(mon_switches, ryu_links))
                = last_topology_hash )
          => /\ pc' = "sleep"
             /\ ~computation_in_progress'
             /\ UNCHANGED <<all_paths, mst, topology_ready>> ]_vars

\* the settled snapshot was observed again after the routes were computed
C31_Witness ==
    /\ topology_ready
    /\ stable_counter > StabilityThreshold
    /\ pc = "sleep"
    /\ all_paths # NoPaths
    /\ mst # NoMst

\* the Johnson routes of controller_johnson_mesh_final.py are not ready
MFNotReady == mf_all_paths = NoPaths \/ ~mf_mst.present

\* C32: while the routes are not ready, the handler of
\* controller_johnson_mesh_final.py sends no frame and installs no rule
C32_StrictSilence ==
    [][ \A d \in Switches, port \in HostPorts, src \in Macs, dst \in Macs,
           is_arp \in BOOLEAN :
          (MFNotReady /\ MFPacketIn(d, port, src, dst, is_arp))
             => mf_out'.ports = {} /\ ~mf_out'.rule ]_vars

\* C33: once topology_frozen is True it stays True, the monitor loop reads
\* the topology no more, and net, port_map, mst and all_paths keep their
\* values whatever happens to the switches and links
C33_FrozenTopologyNeverChanges ==
    [][ mu_topology_frozen
          => /\ mu_topology_frozen'
             /\ mu_pc' \in {"sleep", "done"}
             /\ UNCHANGED <<mu_net, mu_port_map, mu_mst, mu_all_paths>> ]_vars

\* the monitor has left its loop and the switch list has changed since
C33_Witness ==
    /\ mu_topology_frozen
    /\ mu_pc = "done"
    /\ mu_net.nodes # ryu_switches
    /\ Und(Edges(mu_net)) # Und(ryu_links)

\* C34: an ARP request for an IP address that arp_table already holds is
\* answered by the controller with an ARP reply on the ingress port alone:
\* the request goes to no other port and no rule is installed
C34_ArpProxyAnswersOnIngress ==
    [][ \A d \in Switches, port \in 1..4, src \in Macs, dst \in Macs :
          ( /\ IpOf(dst) \in DOMAIN mu_arp_table
            /\ MUPacketIn(d, port, src, dst, "request") )
            => /\ mu_out'.kind = "arp_reply"
               /\ mu_out'.dpid = d
               /\ mu_out'.ports = {port}
               /\ ~mu_out'.rule ]_vars

\* the proxy has just answered a request
C34_Witness ==
    /\ mu_out.kind = "arp_reply"
    /\ mu_frame # NoFrame
    /\ mu_frame[3] = "request"
    /\ IpOf(mu_frame[2]) \in DOMAIN mu_arp_table

\* self.port_map names, for every switch, the switch on the far end of each
\* wired port and nothing else
PortMapMatchesWiring == port_map = TempPortMap(Switches, wiring)

\* the switches that the wiring connects to switch d
Component(d) == ReachSet(Und(wiring), {d})

\* C35: with the spanning tree present and port_map equal to the physical
\* links, a broadcast frame flooded hop by hop with _intelligent_flood is
\* handled by each switch at most once and, when no copy is left on its
\* way, has been handled by every switch connected to the one it entered
C35_FloodOnceAndEverywhere ==
    (mst.present /\ PortMapMatchesWiring)
       => /\ \A d \in Switches : bcast_handled[d] <= 1
          /\ bcast_in_flight = {}
                => \A d \in Switches :
                      bcast_handled[d] > 0
                         => \A w \in Component(d) : bcast_handled[w] > 0

\* C36: no topology change is lost by the controllers that is_updating
\* guards: once every event is handled and no run of
\* _build_optimal_topology is pending or under way, self.net and
\* self.port_map are those of the switches and links that are registered
\* (nothing runs again until the next event)
C36_NoTopologyChangeLost ==
    (~topo_event_pending /\ \A r \in Runs : ring_pc[r] = "none")
      => /\ ring_net = TempNet(ryu_switches, ryu_links)
         /\ ring_port_map = TempPortMap(ryu_switches, ryu_links)

\* every frame that is not ARP, at any switch, for a learned host on another
\* switch would be sent along a route
RoutesEveryPair ==
    \A d \in net.nodes, dd \in net.nodes : \A in_port \in LocalPorts(d) :
        d # dd =>
           JDecision(d, in_port, "h2", FALSE,
                     [m \in {"h2"} |-> <<dd, 1>>]).kind = "unicast"

\* C37: on a fabric at rest that every monitor cycle observes as the same
\* connected topology of two switches or more, topology_ready eventually
\* becomes True and stays True, and from then on a unicast frame for a
\* learned host on another switch is forwarded along a route
C37_EventuallyReadyAndRouted ==
    <>[](topology_ready /\ RoutesEveryPair)

\* the gate has settled on the fabric at rest and the routes are in use
C37_Witness ==
    /\ topology_ready
    /\ stable_counter > StabilityThreshold
    /\ pc = "sleep"
    /\ Edges(net) = Dir(Und(ryu_links))
    /\ RoutesEveryPair

\* _update_topology_state has nothing left to do on this graph: the graph
\* is not empty and its hash is the stored one, so the round returns at the
\* hash test; every round on a graph that is not empty ends in such a state
BFTickDone == bf_net.nodes # {} /\ BFTopoHash(bf_net) = last_topo_hash

\* C38: after every round of _update_topology_state on a graph that is not
\* empty and connected, topology_ready is True and self.mst is a spanning
\* tree of exactly that graph, whatever the graph was before
C38_ReadyAfterEveryConnectedTick ==
    (BFTickDone /\ IsConnected(bf_net.nodes, Und(Edges(bf_net))))
        => /\ bf_topology_ready
           /\ bf_mst.present
           /\ bf_mst.nodes = bf_net.nodes
           /\ bf_mst.edges \in SpanningTrees(bf_net.nodes, Und(Edges(bf_net)))

\* self.port_map has, for every edge of self.net, the far switch under the
\* edge's port
MUPortMapHoldsNet ==
    \A e \in Edges(mu_net) : Neighbor(mu_port_map, e[1], mu_net.port[e]) = e[2]

\* C39: is_ready means that the tables are those of the frozen topology:
\* self.net has reached the target number of links, self.port_map names
\* the far end of each of them, self.all_paths is the result of nx.johnson
\* on self.net and self.mst is a spanning tree of it
C39_ReadyMeansTablesComputed ==
    mu_is_ready
        => /\ mu_topology_frozen
           /\ 2 * Cardinality(Und(Edges(mu_net))) >= TargetLinks
           /\ MUPortMapHoldsNet
           /\ mu_all_paths \in JohnsonResults(mu_net.nodes, Edges(mu_net))
           /\ IF IsConnected(mu_net.nodes, Und(Edges(mu_net)))
              THEN /\ mu_mst.present
                   /\ mu_mst.nodes = mu_net.nodes
                   /\ mu_mst.edges \in
                         SpanningTrees(mu_net.nodes, Und(Edges(mu_net)))
              ELSE mu_mst = NoMst

\* the entry of address m names the switch and the port the host is
\* attached to
AtAttachmentPoint(hosts, m) ==
    hosts[m][1] = HostSwitch(m) /\ hosts[m][2] \in HostPorts

\* C40: every entry of the host location table is the switch and port
\* where the host is attached, never a switch-to-switch port on which a
\* copy of the host's frame came in
C40_HostsAtAttachmentPoint ==
    \A m \in DOMAIN mu_hosts : AtAttachmentPoint(mu_hosts, m)

====
